---- MODULE Spec2Model ----
(***************************************************************************)
(* HubSpot Beta Tracker: the classifier (detectStatus, detectHubs), the    *)
(* identity key (slugify), fetchURL, the Title Filter and the source       *)
(* adapters, the deduplication step of main, the merge engine              *)
(* (mergeResults) and the scan process of src/index.js, with the           *)
(* GET /api/scan handler of src/server.js that runs it.                    *)
(*                                                                         *)
(* Texts are TLA+ strings; TLC evaluates Len, SubSeq and \o on them, so    *)
(* String.prototype.includes, toLowerCase, trim and the regular            *)
(* expressions are computed character by character on the real keyword    *)
(* and pattern tables.                                                     *)
(*                                                                         *)
(* Specifications: Spec (scans whose adapters and writes succeed, for the  *)
(* merge semantics), SpecScan (the scan process step by step, with its     *)
(* failures), SpecClassify, SpecSlug, SpecFetch and SpecAdapters (runs of  *)
(* single functions on bounded inputs).                                    *)
(***************************************************************************)
EXTENDS Integers, Sequences, FiniteSets, TLC

VARIABLES
    pc,         \* position of main: "idle", "collected", ... "done", "failed"
    clock,      \* the wall clock read by new Date(); a scan starts later than the last
    emitted,    \* candidates the adapters have emitted so far in this run
    state,      \* the Item Store: [betas, lastScan, scanCount]
    allItems,   \* main: the concatenated adapter output of the current scan
    deduped,    \* main: [...deduped.values()], the list handed to the last merge
    changes,    \* the Change Set returned by the last mergeResults
    history,    \* the History Log: day -> sequence of snapshots
    text,       \* classifier run: the input text
    outStatus,  \* classifier run: the result of detectStatus, or NoResult
    outHubs,    \* classifier run: the result of detectHubs, or NoResult
    titles,     \* identity key run: the pair of titles given to slugify
    outSlugs,   \* identity key run: the pair of keys returned, or NoResult
    url,        \* fetchURL: the url argument
    attempt,    \* fetchURL: the loop counter
    fetchPc,    \* fetchURL: "attempting" | "sleeping" | "returned"
    fetchLog,   \* fetchURL: what each attempt made so far has met
    slept,      \* fetchURL: the delays waited between attempts, in ms
    fetchResult, \* fetchURL: the value returned
    stateFile,  \* STATE_FILE: the Item Store as last written by saveState
    adapter,    \* scan process: each source adapter's promise and its list
    trigger,    \* scan process: started from the "cli" or by GET /api/scan ("api")
    stdout,     \* scan process: the reports written to the standard output
    response,   \* GET /api/scan: the HTTP status answered, 0 while there is none
    completed,  \* scan processes that ran to their end
    cut,        \* scan processes that wrote STATE_FILE and then ended in failure
    doc,        \* adapter run: the feed item, Releasebot post or community thread
    ran,        \* adapter run: the adapter has gone through doc
    produced,   \* adapter run: the Candidate Records pushed for doc
    apiKey,     \* server.js: API_KEY, '' when the environment sets none
    procs,      \* server.js and cron: the scan processes started, by number
    board,      \* parseCommunityUpdates: the threads the board page lists
    cpc,        \* parseCommunityUpdates: the position in the function
    browser,    \* parseCommunityUpdates: the browser session, "none" before launch
    pages,      \* parseCommunityUpdates: the pages opened, the board's first
    postNo,     \* parseCommunityUpdates: the monthly post the loop is at
    results,    \* parseCommunityUpdates: the Candidate Records pushed so far
    clog,       \* parseCommunityUpdates: the lines logged
    creturn,    \* parseCommunityUpdates: what the call returns, or that it raises
    request     \* server.js: the last GET /api/scan: its key, the status answered
                \* at once and the scan process started for it, 0 for none

vars == <<pc, clock, emitted, state, allItems, deduped, changes, history,
          text, outStatus, outHubs, titles, outSlugs,
          url, attempt, fetchPc, fetchLog, slept, fetchResult,
          stateFile, adapter, trigger, stdout, response, completed, cut,
          doc, ran, produced, apiKey, procs, request,
          board, cpc, browser, pages, postNo, results, clog, creturn>>

scanVars == <<pc, clock, emitted, state, allItems, deduped, changes, history,
              stateFile>>
procVars == <<adapter, trigger, stdout, response, completed, cut>>
classifyVars == <<text, outStatus, outHubs>>
slugVars == <<titles, outSlugs>>
\* the variables of the runs of single functions, which a scan leaves alone
fetchVars == <<url, attempt, fetchPc, fetchLog, slept, fetchResult>>
adapterVars == <<doc, ran, produced>>
serverVars == <<apiKey, procs, request>>
communityVars == <<board, cpc, browser, pages, postNo, results, clog, creturn>>
fnVars == <<classifyVars, slugVars, fetchVars, adapterVars, serverVars,
            communityVars>>
runVars == <<fnVars, procVars>>

----------------------------------------------------------------------------
(* Bounds of the model *)

\* candidates the adapters emit in total over one run of the model
MaxCandidates == 4
\* scans started over one run of the model
MaxScans == 3
\* fragments joined into one classifier input text
MaxFrags == 2

----------------------------------------------------------------------------
(* Strings *)

UpperChars == "ABCDEFGHIJKLMNOPQRSTUVWXYZ"
LowerChars == "abcdefghijklmnopqrstuvwxyz"
DigitChars == "0123456789"

CharAt(s, i) == SubSeq(s, i, i)

IsIn(c, chars) == \E i \in 1..Len(chars) : CharAt(chars, i) = c

\* one character of String.prototype.toLowerCase
lowerChar(c) ==
    IF IsIn(c, UpperChars)
    THEN CharAt(LowerChars, CHOOSE i \in 1..Len(UpperChars) : CharAt(UpperChars, i) = c)
    ELSE c

RECURSIVE ConcatRange(_, _, _)
\* the strings Piece(lo), ..., Piece(hi) joined in order (by halves, so that
\* the evaluation of a long text stays shallow)
ConcatRange(Piece(_), lo, hi) ==
    IF lo > hi THEN ""
    ELSE IF lo = hi THEN Piece(lo)
    ELSE LET mid == (lo + hi) \div 2
         IN  ConcatRange(Piece, lo, mid) \o ConcatRange(Piece, mid + 1, hi)

\* String.prototype.toLowerCase
toLowerCase(s) == ConcatRange(LAMBDA i : lowerChar(CharAt(s, i)), 1, Len(s))

\* String.prototype.includes
includes(s, kw) ==
    \E i \in 1..(Len(s) - Len(kw) + 1) : SubSeq(s, i, i + Len(kw) - 1) = kw

\* Array.prototype.some over a keyword array
someIncluded(lower, keywords) ==
    \E k \in 1..Len(keywords) : includes(lower, keywords[k])

\* Array.prototype.includes
arrIncludes(arr, x) == \E i \in 1..Len(arr) : arr[i] = x

----------------------------------------------------------------------------
(* Classifier tables *)

STATUS_KEYWORDS ==
    ("public beta" :> <<"public beta">>) @@
    ("private beta" :> <<"private beta">>) @@
    ("developer preview" :> <<"developer preview">>) @@
    ("early access" :> <<"early access">>) @@
    ("now live" :> <<"now live", "general availability", "ga release",
                     "now available", "is live", "goes live", "gone live",
                     "launched">>) @@
    ("live" :> <<"live", "available now", "rolling out", "released">>) @@
    ("sunset" :> <<"sunset", "deprecat", "end of life", "eol">>) @@
    ("breaking change" :> <<"breaking change">>) @@
    ("update" :> <<"update", "improvement", "enhanced", "new feature", "added",
                   "improved", "redesigned", "upgraded">>)

\* Object.entries(HUB_KEYWORDS): the categories in insertion order
HUB_ORDER ==
    <<"Marketing Hub", "Sales Hub", "Service Hub", "CMS Hub", "Operations Hub",
      "Commerce Hub", "Developer Platform", "Breeze AI">>

HUB_KEYWORDS ==
    ("Marketing Hub" :> <<"marketing", "email", "forms", "landing pages",
                          "campaigns", "seo", "social", "ads", "blog", "ctas",
                          "lead scoring", "lists", "nurture", "a/b test">>) @@
    ("Sales Hub" :> <<"deals", "pipeline", "sequences", "quotes", "forecasting",
                      "playbooks", "sales", "prospecting", "meetings", "calling",
                      "tasks">>) @@
    ("Service Hub" :> <<"tickets", "conversations", "knowledge base",
                        "customer portal", "feedback", "service", "help desk",
                        "sla">>) @@
    ("CMS Hub" :> <<"cms", "pages", "themes", "templates", "drag-and-drop",
                    "hubdb", "modules", "website", "blog">>) @@
    ("Operations Hub" :> <<"workflows", "data sync", "data quality", "datasets",
                           "custom code", "operations",
                           "programmable automation">>) @@
    ("Commerce Hub" :> <<"payments", "quotes", "invoices", "subscriptions",
                         "commerce", "orders", "carts", "checkout">>) @@
    ("Developer Platform" :> <<"api", "sdk", "cli", "oauth", "apps", "extensions",
                               "sandbox", "marketplace", "developer", "webhook",
                               "serverless", "hubl">>) @@
    ("Breeze AI" :> <<"breeze", "ai", "copilot", "assistant", "agent",
                      "intelligence">>)

\* the placeholder category
Platform == "Platform"

\* the fallback status
Fallback == "update"

----------------------------------------------------------------------------
(* Classifier *)

\* the order of the keys of STATUS_KEYWORDS, used in place of priorityOrder
priorityOrder_keys ==
    <<"public beta", "private beta", "developer preview", "early access",
      "now live", "live", "sunset", "breaking change", "update">>

priorityOrder ==
    <<"public beta", "private beta", "developer preview", "early access",
      "now live", "sunset", "breaking change", "live", "update">>

RECURSIVE detectStatusFrom(_, _)
\* the for loop of detectStatus from position i of priorityOrder
detectStatusFrom(lower, i) ==
    IF i > Len(priorityOrder) THEN Fallback
    ELSE LET status == priorityOrder[i] IN
         IF /\ status \in DOMAIN STATUS_KEYWORDS
            /\ someIncluded(lower, STATUS_KEYWORDS[status])
         THEN status
         ELSE detectStatusFrom(lower, i + 1)

detectStatus(t) == detectStatusFrom(toLowerCase(t), 1)

RECURSIVE detectHubsFrom(_, _, _)
\* the for loop of detectHubs from entry i, hubs pushed so far
detectHubsFrom(lower, i, hubs) ==
    IF i > Len(HUB_ORDER) THEN hubs
    ELSE detectHubsFrom(lower, i + 1,
            IF someIncluded(lower, HUB_KEYWORDS[HUB_ORDER[i]])
            THEN Append(hubs, HUB_ORDER[i]) ELSE hubs)

\* detectHubs stopping at the first matching category
detectHubs_firstOnly(t) ==
    LET hubs == detectHubsFrom(toLowerCase(t), 1, <<>>)
    IN  IF Len(hubs) > 0 THEN <<hubs[1]>> ELSE <<Platform>>

detectHubs(t) ==
    LET hubs == detectHubsFrom(toLowerCase(t), 1, <<>>)
    IN  IF Len(hubs) > 0 THEN hubs ELSE <<Platform>>

----------------------------------------------------------------------------
(* Identity key *)

IsAlnum(c) == IsIn(c, LowerChars) \/ IsIn(c, DigitChars)

\* .replace(/[^a-z0-9]+/g, '-'): every run of other characters becomes one '-'
replaceRuns(s) ==
    ConcatRange(LAMBDA i :
                    IF IsAlnum(CharAt(s, i)) THEN CharAt(s, i)
                    ELSE IF i > 1 /\ ~IsAlnum(CharAt(s, i - 1)) THEN ""
                    ELSE "-",
                1, Len(s))

\* a trim that drops the leading '-' alone
trimHyphens_leadingOnly(s) ==
    IF Len(s) > 0 /\ CharAt(s, 1) = "-" THEN SubSeq(s, 2, Len(s)) ELSE s

\* .replace(/^-|-$/g, ''): one leading and one trailing '-' are dropped
trimHyphens(s) ==
    LET a == IF Len(s) > 0 /\ CharAt(s, 1) = "-" THEN SubSeq(s, 2, Len(s)) ELSE s
    IN  IF Len(a) > 0 /\ CharAt(a, Len(a)) = "-" THEN SubSeq(a, 1, Len(a) - 1) ELSE a

\* String.prototype.substring(0, n)
substring0(s, n) == IF Len(s) > n THEN SubSeq(s, 1, n) ELSE s

SlugMax == 80
DescMax == 500

slugify(title) == substring0(trimHyphens(replaceRuns(toLowerCase(title))), SlugMax)

----------------------------------------------------------------------------
(* Source adapters: what they read and the Candidate Record they build *)

TitleA == "New Sequence Automation Beta"
TitleA2 == "New sequence automation (BETA)"
TitleB == "Custom Report Builder"

DescShort == "Short."
DescBrief == "Brief."
DescBeta == "Now in public beta for sequences."
DescLive == "This feature is now live for all marketing email users."
DescLong == "Improved layout and editing experience in the report builder."

\* the adapters in the order main concatenates their results
SourceOrder == <<"dev-changelog", "community", "releasebot-product">>

Raw(t, d, s) == [title |-> t, description |-> d, source |-> s]

\* the (title, description) pairs the adapters extract from the fetched documents
RawItems ==
    { Raw(TitleA, DescBeta, "dev-changelog"),
      Raw(TitleA, DescLive, "dev-changelog"),
      Raw(TitleB, DescLong, "dev-changelog"),
      Raw(TitleA2, "", "community"),
      Raw(TitleA, DescBrief, "community"),
      Raw(TitleA, DescLong, "community"),
      Raw(TitleB, DescBeta, "community"),
      Raw(TitleA, DescShort, "releasebot-product") }

\* results.push({ id, title, description, status, hubs, source, ... })
Candidate(raw) ==
    LET combined == raw.title \o " " \o raw.description IN
    [ id          |-> slugify(raw.title),
      title       |-> raw.title,
      description |-> substring0(raw.description, DescMax),
      status      |-> detectStatus(combined),
      hubs        |-> detectHubs(combined),
      source      |-> raw.source ]

\* evaluated once: the candidate of every raw item
CandidateOf == [raw \in RawItems |-> Candidate(raw)]

SourceIndex(s) == CHOOSE i \in 1..Len(SourceOrder) : SourceOrder[i] = s

SeqsUpTo(S, n) == UNION {[1..k -> S] : k \in 0..n}

\* [...devItems, ...communityItems, ...productItems, ...releasebotItems]
AdapterOutputs(n) ==
    { raws \in SeqsUpTo(RawItems, n) :
        \A i \in 1..(Len(raws) - 1) :
            SourceIndex(raws[i].source) <= SourceIndex(raws[i + 1].source) }

----------------------------------------------------------------------------
(* Item Store and History Log *)

\* lastScan: null of a store that was never scanned
Null == 0

\* loadState without a state file: { betas: {}, lastScan: null, scanCount: 0 }
EmptyState == [betas |-> <<>>, lastScan |-> Null, scanCount |-> 0]

NoChanges == [new |-> <<>>, statusChanged |-> <<>>, updated |-> <<>>]

\* clock ticks per calendar day
TicksPerDay == 2

\* new Date().toISOString().split('T')[0]
DayOf(t) == t \div TicksPerDay

----------------------------------------------------------------------------
(* Deduplication step of main *)

\* a comparison under which the last of the longest candidates wins
moreInfo_orEqual(item, existing) == Len(item.description) >= Len(existing.description)

\* a test that prefers the shorter description
moreInfo_less(item, existing) == Len(item.description) < Len(existing.description)

\* item.description.length > (existing.description?.length || 0)
moreInfo(item, existing) == Len(item.description) > Len(existing.description)

\* the position in the Map's insertion order of the entry with key id
keyIndex(entries, id) == CHOOSE i \in 1..Len(entries) : entries[i].id = id

\* an iteration that keeps every candidate
dedupeStep_keepAll(entries, item) == Append(entries, item)

\* an iteration that puts a new identity in front of the others
dedupeStep_unshift(entries, item) ==
    IF ~\E i \in 1..Len(entries) : entries[i].id = item.id
    THEN <<item>> \o entries
    ELSE LET i == keyIndex(entries, item.id) IN
         IF moreInfo(item, entries[i])
         THEN [entries EXCEPT ![i] = item]
         ELSE entries

\* one iteration of the loop over allItems; entries are the Map's values in
\* insertion order (Map.set on a present key keeps the key's position)
dedupeStep(entries, item) ==
    IF ~\E i \in 1..Len(entries) : entries[i].id = item.id
    THEN Append(entries, item)
    ELSE LET i == keyIndex(entries, item.id) IN
         IF moreInfo(item, entries[i])
         THEN [entries EXCEPT ![i] = item]
         ELSE entries

\* [...deduped.values()] after the loop
dedupe(items) ==
    LET F[n \in 0..Len(items)] ==
            IF n = 0 THEN <<>> ELSE dedupeStep(F[n - 1], items[n])
    IN  F[Len(items)]

----------------------------------------------------------------------------
(* Merge engine *)

\* a new item whose Status History is left empty
newTracked_noHistory(item, now) ==
    item @@ ( "firstSeen" :> now
           @@ "lastSeen" :> now
           @@ "statusHistory" :> <<>> )

\* the tracked item created for an absent identity
newTracked(item, now) ==
    item @@ ( "firstSeen" :> now
           @@ "lastSeen" :> now
           @@ "statusHistory" :>
                  <<[status |-> item.status, date |-> now, source |-> item.source]>> )

\* a loop that pushes every hub of the candidate
pushHubs_always(hubs, itemHubs) == hubs \o itemHubs

\* the loop pushing the hubs of the candidate that the item does not hold yet
pushHubs(hubs, itemHubs) ==
    LET F[n \in 0..Len(itemHubs)] ==
            IF n = 0 THEN hubs
            ELSE IF arrIncludes(F[n - 1], itemHubs[n]) THEN F[n - 1]
            ELSE Append(F[n - 1], itemHubs[n])
    IN  F[Len(itemHubs)]

\* Array.prototype.filter(h => h !== 'Platform')
dropPlatform(hubs) == SelectSeq(hubs, LAMBDA h : h # Platform)

\* a merge that never removes the placeholder
mergeHubs_keepPlatform(existing, item) ==
    IF "hubs" \notin DOMAIN existing THEN item.hubs
    ELSE pushHubs(existing.hubs, item.hubs)

\* the hubs of an existing item after the merge of a candidate
mergeHubs(existing, item) ==
    IF "hubs" \notin DOMAIN existing THEN item.hubs
    ELSE LET pushed == pushHubs(existing.hubs, item.hubs) IN
         IF Len(pushed) > 1 /\ arrIncludes(pushed, Platform)
         THEN dropPlatform(pushed)
         ELSE pushed

\* a status test that lets the fallback status trigger a transition
statusChanges_anyStatus(existing, item) == existing.status # item.status

\* existing.status !== item.status && item.status !== 'update'
statusChanges(existing, item) ==
    existing.status # item.status /\ item.status # Fallback

\* a history entry that reads the status after it was overwritten
transitionEntry_overwritten(oldStatus, item, now) ==
    [status |-> item.status, date |-> now, source |-> item.source,
     previousStatus |-> item.status]

\* { status: item.status, date: now, source: item.source, previousStatus: oldStatus }
transitionEntry(oldStatus, item, now) ==
    [status |-> item.status, date |-> now, source |-> item.source,
     previousStatus |-> oldStatus]

\* unshift in place of push
pushHistory_front(statusHistory, entry) == <<entry>> \o statusHistory

\* existing.statusHistory.push(entry)
pushHistory(statusHistory, entry) == Append(statusHistory, entry)

\* a length test that also accepts a description of equal length
betterDescription_orEqual(existing, item) ==
    /\ item.description # ""
    /\ Len(item.description) >= Len(existing.description)

\* item.description && item.description.length > (existing.description?.length || 0)
betterDescription(existing, item) ==
    /\ item.description # ""
    /\ Len(item.description) > Len(existing.description)

\* the sources of an existing item after the merge of a candidate
mergeSources(existing, item) ==
    LET sources == IF "sources" \in DOMAIN existing
                   THEN existing.sources ELSE <<existing.source>>
    IN  IF arrIncludes(sources, item.source) THEN sources
        ELSE Append(sources, item.source)

\* a merge that records the transition and leaves the stored status as it was
mergeExisting_statusKept(existing, item, now) ==
    LET changed == statusChanges(existing, item)
        better == betterDescription(existing, item)
    IN  ( "lastSeen" :> now
       @@ "hubs" :> mergeHubs(existing, item)
       @@ "statusHistory" :>
              (IF changed
               THEN pushHistory(existing.statusHistory,
                                transitionEntry(existing.status, item, now))
               ELSE existing.statusHistory)
       @@ "description" :>
              (IF better THEN item.description ELSE existing.description)
       @@ "sources" :> mergeSources(existing, item) )
       @@ existing

\* the else branch of the loop body: the candidate's identity is tracked
mergeExisting(existing, item, now) ==
    LET changed == statusChanges(existing, item)
        better == betterDescription(existing, item)
    IN  ( "lastSeen" :> now
       @@ "hubs" :> mergeHubs(existing, item)
       @@ "status" :> (IF changed THEN item.status ELSE existing.status)
       @@ "statusHistory" :>
              (IF changed
               THEN pushHistory(existing.statusHistory,
                                transitionEntry(existing.status, item, now))
               ELSE existing.statusHistory)
       @@ "description" :>
              (IF better THEN item.description ELSE existing.description)
       @@ "sources" :> mergeSources(existing, item) )
       @@ existing

\* one iteration of the loop of mergeResults over newItems
mergeStep(acc, item, now) ==
    IF item.id \notin DOMAIN acc.betas
    THEN [ betas   |-> (item.id :> newTracked(item, now)) @@ acc.betas,
           changes |-> [acc.changes EXCEPT !.new = Append(@, item)] ]
    ELSE LET existing == acc.betas[item.id] IN
         [ betas   |-> (item.id :> mergeExisting(existing, item, now)) @@ acc.betas,
           changes |->
             [ new |-> acc.changes.new,
               statusChanged |->
                   IF statusChanges(existing, item)
                   THEN Append(acc.changes.statusChanged,
                               item @@ ("previousStatus" :> existing.status))
                   ELSE acc.changes.statusChanged,
               updated |->
                   IF betterDescription(existing, item)
                   THEN Append(acc.changes.updated, item)
                   ELSE acc.changes.updated ] ]

\* mergeResults(state, newItems) at time now: the betas of the store after
\* the in-place mutation, and the returned Change Set
mergeResults(betas, newItems, now) ==
    LET F[n \in 0..Len(newItems)] ==
            IF n = 0 THEN [betas |-> betas, changes |-> NoChanges]
            ELSE mergeStep(F[n - 1], newItems[n], now)
    IN  F[Len(newItems)]

\* saveHistory(report): the day's file with the snapshot appended
saveHistory(log, report, now) ==
    LET day == DayOf(now)
        existing == IF day \in DOMAIN log THEN log[day] ELSE <<>>
    IN  (day :> Append(existing, report @@ ("timestamp" :> now))) @@ log

----------------------------------------------------------------------------
(* main: one scan *)

NoResult == "none"

\* the counter starts again at 1
nextScanCount_reset(st) == 1

\* (state.scanCount || 0) + 1
nextScanCount(st) == st.scanCount + 1

\* no scan has run: the store is the one loadState returns without a state file
ScanInit ==
    /\ pc = "idle"
    /\ clock = 1
    /\ emitted = 0
    /\ state = EmptyState
    /\ allItems = <<>>
    /\ deduped = <<>>
    /\ changes = NoChanges
    /\ history = <<>>
    /\ stateFile = EmptyState

\* no classifier run
ClassifyIdle == text = "" /\ outStatus = NoResult /\ outHubs = NoResult

\* no identity key run
SlugIdle == titles = <<"", "">> /\ outSlugs = NoResult

\* JavaScript values a fetch can return
JsUndefined == [type |-> "undefined", value |-> ""]
JsNull == [type |-> "null", value |-> ""]
JsString(str) == [type |-> "string", value |-> str]

\* no call of fetchURL
FetchIdle ==
    /\ url = ""
    /\ attempt = 0
    /\ fetchPc = "returned"
    /\ fetchLog = <<>>
    /\ slept = <<>>
    /\ fetchResult = JsUndefined

AdapterNames ==
    {"parseDevChangelog", "parseProductUpdates", "parseReleasebot",
     "parseCommunityUpdates"}

\* an adapter's promise: not yet called, running, returned with a list, raised
Pending == [st |-> "pending", items |-> <<>>]
Running == [st |-> "running", items |-> <<>>]
Returned(items) == [st |-> "returned", items |-> items]
Raised == [st |-> "raised", items |-> <<>>]

\* no scan process has been started
ProcIdle ==
    /\ adapter = [a \in AdapterNames |-> Pending]
    /\ trigger = "cli"
    /\ stdout = <<>>
    /\ response = 0
    /\ completed = 0
    /\ cut = 0

\* no document given to an adapter
NoDoc == [kind |-> "none", title |-> "", desc |-> "", layout |-> "h4", subs |-> <<>>]

\* no adapter run
AdaptersIdle == doc = NoDoc /\ ran = FALSE /\ produced = <<>>

\* a scan process that has not been started; state is what main holds in
\* memory while it runs
NoProc == [pc |-> "none", by |-> "cli", state |-> EmptyState, response |-> 0]

\* no request handled
NoRequest == [query |-> JsUndefined, header |-> JsUndefined, status |-> 0, proc |-> 0]

\* the scan processes that can run side by side
MaxProcs == 2

\* parseCommunityUpdates has not been called
CommunityIdle ==
    /\ board = <<>>
    /\ cpc = "ended"
    /\ browser = "none"
    /\ pages = <<>>
    /\ postNo = 0
    /\ results = <<>>
    /\ clog = <<>>
    /\ creturn = Pending

\* the server is up with no API_KEY, nothing has been requested or started
ServerIdle ==
    /\ apiKey = ""
    /\ procs = [p \in 1..MaxProcs |-> NoProc]
    /\ request = NoRequest

\* const state = loadState(); the adapters run and settle; allItems is built
CollectAll ==
    /\ pc = "idle"
    /\ state.scanCount < MaxScans
    /\ \E raws \in AdapterOutputs(MaxCandidates - emitted) :
          /\ allItems' = [i \in 1..Len(raws) |-> CandidateOf[raws[i]]]
          /\ emitted' = emitted + Len(raws)
    /\ clock' = clock + 1
    /\ pc' = "collected"
    /\ changes' = NoChanges
    /\ UNCHANGED <<state, stateFile, deduped, history, runVars>>

\* deduplicate, mergeResults, lastScan, scanCount, saveState, saveHistory
MergeAndSave ==
    /\ pc = "collected"
    /\ LET d == dedupe(allItems)
           m == mergeResults(state.betas, d, clock)
       IN  /\ deduped' = d
           /\ changes' = m.changes
           /\ state' = [ betas     |-> m.betas,
                         lastScan  |-> clock,
                         scanCount |-> nextScanCount(state) ]
           /\ stateFile' = state'
           /\ history' = saveHistory(history,
                             [changes |-> m.changes, itemsFound |-> Len(d)], clock)
    /\ pc' = "idle"
    /\ UNCHANGED <<clock, emitted, allItems, runVars>>

Init ==
    ScanInit /\ ClassifyIdle /\ SlugIdle /\ FetchIdle /\ ProcIdle /\ AdaptersIdle
    /\ ServerIdle
    /\ CommunityIdle

Next == CollectAll \/ MergeAndSave

Spec == Init /\ [][Next]_vars

----------------------------------------------------------------------------
(* Classifier runs: detectStatus and detectHubs applied to bounded texts *)

Fragments ==
    <<"Public Beta", "private beta", "is now live", "Released", "Sunset",
      "Updated", "email", "workflows", "other">>

\* the fragments of fs joined by single spaces
Join(fs) ==
    LET F[n \in 0..Len(fs)] ==
            IF n = 0 THEN ""
            ELSE IF n = 1 THEN Fragments[fs[1]]
            ELSE F[n - 1] \o " " \o Fragments[fs[n]]
    IN  F[Len(fs)]

Texts == {Join(fs) : fs \in SeqsUpTo(1..Len(Fragments), MaxFrags)}

RunDetectStatus ==
    /\ outStatus = NoResult
    /\ outStatus' = detectStatus(text)
    /\ UNCHANGED <<text, outHubs, scanVars, slugVars, fetchVars, procVars,
                   serverVars, communityVars, adapterVars>>

RunDetectHubs ==
    /\ outHubs = NoResult
    /\ outHubs' = detectHubs(text)
    /\ UNCHANGED <<text, outStatus, scanVars, slugVars, fetchVars, procVars,
                   serverVars, communityVars, adapterVars>>

InitClassify ==
    /\ text \in Texts
    /\ outStatus = NoResult
    /\ outHubs = NoResult
    /\ ScanInit
    /\ SlugIdle
    /\ FetchIdle
    /\ ProcIdle
    /\ ServerIdle
    /\ CommunityIdle
    /\ AdaptersIdle

NextClassify == RunDetectStatus \/ RunDetectHubs

SpecClassify == InitClassify /\ [][NextClassify]_vars

----------------------------------------------------------------------------
(* Identity key runs: slugify applied to pairs of bounded titles *)

LongWord == "Programmable-Automation-Workflow-Builder"

\* the punctuation around a title: none, or a lead and a tail
TitleWraps == {<<"", "">>, <<"(", ")!">>}
TitleWords == {"Beta", "BETA", LongWord}
TitleSeps == {" ", " -- "}
TitleEnds == {"Sync", LongWord \o " X", LongWord \o " Y"}

\* titles made of two words, with a lead, a separator and a tail
SlugTitles ==
    { wrap[1] \o w \o sep \o e \o wrap[2] :
        wrap \in TitleWraps, w \in TitleWords, sep \in TitleSeps,
        e \in TitleEnds }

RunSlugify ==
    /\ outSlugs = NoResult
    /\ outSlugs' = <<slugify(titles[1]), slugify(titles[2])>>
    /\ UNCHANGED <<titles, scanVars, classifyVars, fetchVars, procVars,
                   serverVars, communityVars, adapterVars>>

InitSlug ==
    /\ titles \in SlugTitles \X SlugTitles
    /\ outSlugs = NoResult
    /\ ScanInit
    /\ ClassifyIdle
    /\ FetchIdle
    /\ ProcIdle
    /\ ServerIdle
    /\ CommunityIdle
    /\ AdaptersIdle

NextSlug == RunSlugify

SpecSlug == InitSlug /\ [][NextSlug]_vars

----------------------------------------------------------------------------
(* Regular expressions: a regex is a list of branches (its top-level        *)
(* alternatives), a branch a list of tokens with optional ^ and $, a token  *)
(* either a literal text or a character class repeated min..max times       *)
(* (max = -1: no upper limit)                                               *)

WordChars == LowerChars \o UpperChars \o DigitChars \o "_"
SpaceChars == " \t\n"

Lit(str) == <<[lit |-> str, cls |-> "", min |-> 1, max |-> 1]>>
Rep(cls, min, max) == <<[lit |-> "", cls |-> cls, min |-> min, max |-> max]>>
Opt(cls) == Rep(cls, 0, 1)
Plus(cls) == Rep(cls, 1, -1)
Star(cls) == Rep(cls, 0, -1)

Branch(start, end, toks) == [start |-> start, end |-> end, toks |-> toks]
Begins(toks) == Branch(TRUE, FALSE, toks)
Whole(toks) == Branch(TRUE, TRUE, toks)
Anywhere(toks) == Branch(FALSE, FALSE, toks)

\* /.../i and /.../
RegexI(branches) == [i |-> TRUE, branches |-> branches]
Regex(branches) == [i |-> FALSE, branches |-> branches]

\* the positions of s at which token t can end when it starts after position p
Advance(t, s, p) ==
    IF t.lit # ""
    THEN IF p + Len(t.lit) <= Len(s) /\ SubSeq(s, p + 1, p + Len(t.lit)) = t.lit
         THEN {p + Len(t.lit)}
         ELSE {}
    ELSE LET stops == {k \in (p + 1)..Len(s) : ~IsIn(CharAt(s, k), t.cls)}
             run == IF stops = {} THEN Len(s)
                    ELSE (CHOOSE k \in stops : \A j \in stops : k <= j) - 1
             last == IF t.max < 0 \/ p + t.max > run THEN run ELSE p + t.max
         IN  (p + t.min)..last

RECURSIVE EndsFrom(_, _, _, _)
\* the positions at which the first n tokens can end when started at starts
EndsFrom(toks, n, s, starts) ==
    IF n = 0 THEN starts
    ELSE UNION {Advance(toks[n], s, p) : p \in EndsFrom(toks, n - 1, s, starts)}

branchMatches(b, s) ==
    LET starts == IF b.start THEN {0} ELSE 0..Len(s)
        ends == EndsFrom(b.toks, Len(b.toks), s, starts)
    IN  IF b.end THEN Len(s) \in ends ELSE ends # {}

\* RegExp.prototype.test
test(re, str) ==
    LET s == IF re.i THEN toLowerCase(str) ELSE str
    IN  \E k \in 1..Len(re.branches) : branchMatches(re.branches[k], s)

\* Array.prototype.some(pat => pat.test(str))
somePattern(patterns, str) == \E k \in 1..Len(patterns) : test(patterns[k], str)

\* String.prototype.trim
trim(s) ==
    LET kept == {i \in 1..Len(s) : ~IsIn(CharAt(s, i), SpaceChars)}
    IN  IF kept = {} THEN ""
        ELSE SubSeq(s, CHOOSE i \in kept : \A j \in kept : i <= j,
                       CHOOSE i \in kept : \A j \in kept : i >= j)

\* /^\d+\.\s*/
NumberPrefix == Plus(DigitChars) \o Lit(".") \o Star(SpaceChars)

\* str.replace(/^\d+\.\s*/, '')
stripNumber(str) ==
    LET ends == EndsFrom(NumberPrefix, Len(NumberPrefix), str, {0})
    IN  IF ends = {} THEN str
        ELSE SubSeq(str, (CHOOSE e \in ends : \A f \in ends : e >= f) + 1, Len(str))

----------------------------------------------------------------------------
(* Title Filter *)

NOISE_PATTERNS ==
    << RegexI(<<Begins(Lit("questions or comments"))>>),
       RegexI(<<Begins(Lit("what") \o Opt("'") \o Lit("s changing"))>>),
       RegexI(<<Begins(Lit("when is it happening"))>>),
       RegexI(<<Begins(Lit("for ") \o Plus(WordChars))>>),
       RegexI(<<Begins(Lit("for any industry"))>>),
       RegexI(<<Begins(Lit("ready to transform"))>>),
       RegexI(<<Begins(Lit("app theme ") \o Opt("#") \o Rep(DigitChars, 1, 1))>>),
       RegexI(<<Begins(Lit("key considerations"))>>),
       RegexI(<<Begins(Lit("starting ") \o Plus(WordChars) \o Lit(" ")
                        \o Rep(DigitChars, 1, 1))>>),
       RegexI(<<Begins(Lit("all hubspot release notes"))>>),
       RegexI(<<Begins(Lit("over the last month"))>>),
       RegexI(<<Begins(Lit("this month") \o Opt("'") \o Lit("s updates focus"))>>),
       RegexI(<<Whole(Lit("node") \o Opt(".") \o Lit("js requirements"))>>),
       RegexI(<<Whole(Lit("deprecated commands removed"))>>),
       RegexI(<<Whole(Lit("additional breaking changes"))>>),
       RegexI(<<Whole(Lit("bug fixes and improvements"))>>),
       RegexI(<<Whole(Lit("ci/cd considerations"))>>),
       RegexI(<<Begins(Lit("sunset notice for"))>>),
       RegexI(<<Begins(Lit("what") \o Opt("'") \o Lit("s new"))>>),
       RegexI(<<Begins(Lit("what") \o Opt("'") \o Lit("s changing"))>>),
       Regex(<<Begins(Plus(DigitChars) \o Lit(".") \o Rep(SpaceChars, 1, 1))>>),
       RegexI(<<Begins(Lit("the ") \o Plus(WordChars) \o Lit(" ")
                        \o Rep(DigitChars, 4, 4) \o Lit(" industry edit"))>>) >>

ROLLUP_PATTERNS ==
    << RegexI(<<Anywhere(Lit("developer") \o Plus(SpaceChars) \o Lit("updates")
                          \o Plus(SpaceChars) \o Lit("for") \o Plus(SpaceChars)
                          \o Plus(WordChars) \o Plus(SpaceChars)
                          \o Rep(DigitChars, 4, 4)),
                 Anywhere(Lit("developer") \o Plus(SpaceChars) \o Lit("rollup")
                          \o Plus(SpaceChars) \o Lit("for") \o Plus(SpaceChars)
                          \o Plus(WordChars) \o Plus(SpaceChars)
                          \o Rep(DigitChars, 4, 4))>>),
       RegexI(<<Anywhere(Plus(WordChars) \o Plus(SpaceChars) \o Rep(DigitChars, 4, 4)
                          \o Plus(SpaceChars) \o Lit("developer")
                          \o Plus(SpaceChars) \o Lit("rollup"))>>),
       RegexI(<<Begins(Lit("top product update") \o Opt("s") \o Plus(SpaceChars)
                        \o Lit("for"))>>),
       RegexI(<<Begins(Lit("product update") \o Opt("s") \o Plus(SpaceChars)
                        \o Lit("for") \o Plus(SpaceChars) \o Plus(WordChars)
                        \o Plus(SpaceChars) \o Rep(DigitChars, 4, 4))>>),
       RegexI(<<Whole(Plus(WordChars) \o Plus(SpaceChars) \o Lit("product")
                       \o Plus(SpaceChars) \o Lit("update") \o Opt("s"))>>),
       RegexI(<<Whole(Plus(WordChars) \o Plus(SpaceChars) \o Rep(DigitChars, 4, 4)
                       \o Plus(SpaceChars) \o Lit("product") \o Plus(SpaceChars)
                       \o Lit("update") \o Opt("s"))>>) >>

INFORMATIONAL_PATTERNS ==
    << RegexI(<<Begins(Lit("top delivered ideas"))>>),
       RegexI(<<Begins(Lit("new hubspot app updates"))>>),
       RegexI(<<Begins(Rep(DigitChars, 1, 1) \o Plus(DigitChars \o ",") \o Opt("+")
                        \o Plus(SpaceChars) \o Lit("apps"))>>),
       RegexI(<<Begins(Lit("revealed") \o Opt(":") \o Plus(SpaceChars)
                        \o Lit("emerging app themes"))>>),
       RegexI(<<Anywhere(Lit("industry edit"))>>),
       RegexI(<<Begins(Lit("app marketplace"))>>) >>

isRollupPost(title) == somePattern(ROLLUP_PATTERNS, trim(title))

isInformationalPost(title) == somePattern(INFORMATIONAL_PATTERNS, trim(title))

isNoise(title) == somePattern(NOISE_PATTERNS, trim(title))

\* /[A-Z]/.test(title)
hasUpper(title) == \E i \in 1..Len(title) : IsIn(CharAt(title, i), UpperChars)

isValidTitle(title) ==
    IF title = "" \/ Len(title) < 15 \/ Len(title) > 200 THEN FALSE
    ELSE IF isNoise(title) THEN FALSE
    ELSE IF ~hasUpper(title) THEN FALSE
    ELSE TRUE

----------------------------------------------------------------------------
(* The source adapters on one document: a feed item of the developer        *)
(* changelog, a post of a Releasebot page, a thread of the community board  *)

\* sub-headings an adapter reads per document
MaxSubs == 1

RECURSIVE FlatRange(_, _, _)
\* the lists Piece(lo), ..., Piece(hi) joined in order
FlatRange(Piece(_), lo, hi) ==
    IF lo > hi THEN <<>>
    ELSE IF lo = hi THEN Piece(lo)
    ELSE LET mid == (lo + hi) \div 2
         IN  FlatRange(Piece, lo, mid) \o FlatRange(Piece, mid + 1, hi)

\* results.push({ id, title, description, status, hubs, source, ... })
pushed(title, description, combined, source) ==
    << [ id          |-> slugify(title),
         title       |-> title,
         description |-> substring0(description, DescMax),
         status      |-> detectStatus(combined),
         hubs        |-> detectHubs(combined),
         source      |-> source ] >>

\* parseDevChangelog: the loop body for one item of the feed
devItem(item) ==
    IF ~isValidTitle(item.title) THEN <<>>
    ELSE IF isRollupPost(item.title) THEN <<>>
    ELSE IF isInformationalPost(item.title) THEN <<>>
    ELSE [ pushed(trim(item.title), item.desc, item.title \o " " \o item.desc,
                  "dev-changelog")
             EXCEPT ![1].id = slugify(item.title) ]

\* /^\d+\.\s/
NumberedHeading ==
    Regex(<<Begins(Plus(DigitChars) \o Lit(".") \o Rep(SpaceChars, 1, 1))>>)

\* parseReleasebot: the numbered H4 features of a post
numberedFeatures(numbered, desc, label) ==
    FlatRange(LAMBDA k :
                  LET cleanTitle == trim(stripNumber(trim(numbered[k])))
                  IN  IF cleanTitle = "" \/ Len(cleanTitle) < 10 THEN <<>>
                      ELSE pushed(cleanTitle, desc, cleanTitle \o " " \o desc, label),
              1, Len(numbered))

\* the post itself as a single entry, whatever its title
singleEntry_unfiltered(postTitle, postSummary, label) ==
    pushed(postTitle, postSummary, postTitle \o " " \o postSummary, label)

\* parseReleasebot: the post itself as a single entry
singleEntry(postTitle, postSummary, label) ==
    IF ~isValidTitle(postTitle) THEN <<>>
    ELSE IF isRollupPost(postTitle) THEN <<>>
    ELSE IF isInformationalPost(postTitle) THEN <<>>
    ELSE pushed(postTitle, postSummary, postTitle \o " " \o postSummary, label)

\* parseReleasebot: the loop body for one li of the page
releasebotPost(post, label) ==
    LET postTitle == trim(post.title) IN
    IF postTitle = "" \/ Len(postTitle) < 10 THEN <<>>
    ELSE IF isNoise(postTitle) THEN <<>>
    ELSE LET numbered == SelectSeq(post.subs,
                                   LAMBDA h : test(NumberedHeading, trim(h)))
         IN  IF Len(numbered) > 0
             THEN numberedFeatures(numbered, post.desc, label)
             ELSE singleEntry(postTitle, post.desc, label)

\* /top product updates for|product update[s]? for|^\w+ \d{4} product update/i
MonthlyPost ==
    RegexI(<< Anywhere(Lit("top product updates for")),
              Anywhere(Lit("product update") \o Opt("s") \o Lit(" for")),
              Begins(Plus(WordChars) \o Lit(" ") \o Rep(DigitChars, 4, 4)
                     \o Lit(" product update")) >>)

\* /(release notes|industry edit|collection|app update|marketplace)/i
NotStandalone ==
    RegexI(<< Anywhere(Lit("release notes")), Anywhere(Lit("industry edit")),
              Anywhere(Lit("collection")), Anywhere(Lit("app update")),
              Anywhere(Lit("marketplace")) >>)

\* /^(now in|want to|learn more|note:|how to|send feedback)/i
BoldSkipped ==
    RegexI(<< Begins(Lit("now in")), Begins(Lit("want to")),
              Begins(Lit("learn more")), Begins(Lit("note:")),
              Begins(Lit("how to")), Begins(Lit("send feedback")) >>)

\* parseCommunityUpdates: the titles postPage.evaluate returns for a post
featureTitles(post) ==
    LET h4s == IF post.layout = "h4" THEN post.subs ELSE <<>>
        bolds == IF post.layout = "strong" THEN post.subs ELSE <<>>
    IN  IF Len(h4s) > 0 THEN [k \in 1..Len(h4s) |-> trim(h4s[k])]
        ELSE SelectSeq([k \in 1..Len(bolds) |-> trim(bolds[k])],
                       LAMBDA title : ~(Len(title) < 15 \/ test(BoldSkipped, title)))

\* parseCommunityUpdates: the features of one monthly post
monthlyPost(post) ==
    LET features == featureTitles(post) IN
    FlatRange(LAMBDA k :
                  LET cleanTitle == trim(stripNumber(features[k]))
                  IN  IF cleanTitle = "" \/ Len(cleanTitle) < 10
                         \/ ~isValidTitle(cleanTitle)
                      THEN <<>>
                      ELSE pushed(cleanTitle, post.desc,
                                  cleanTitle \o " " \o post.desc \o "  ",
                                  "community"),
              1, Len(features))

\* parseCommunityUpdates: a standalone post as a single item
standalonePost(post) ==
    LET title == trim(post.title) IN
    IF ~isValidTitle(title) THEN <<>>
    ELSE IF isRollupPost(title) \/ isInformationalPost(title) THEN <<>>
    ELSE pushed(title, "", title, "community")

\* parseCommunityUpdates: one thread of the board
communityThread(thread) ==
    IF test(MonthlyPost, thread.title) THEN monthlyPost(thread)
    ELSE IF ~test(NotStandalone, thread.title) THEN standalonePost(thread)
    ELSE <<>>

DevRollupTitle == "Developer updates for January 2026"
IndustryEditTitle == "The January 2026 Industry Edit"
TopIdeasTitle == "Top Delivered Ideas in Q3"
WhatsNewTitle == "What's new in workflows"
LowerTitle == "custom report builder improvements"
MonthlyTitle == "October 2025 Product Updates"
ShortTitle == "Sync"

PostTitles ==
    { TitleA, DevRollupTitle, IndustryEditTitle, TopIdeasTitle, WhatsNewTitle,
      LowerTitle, MonthlyTitle, ShortTitle }

SubHeadings ==
    { "1. Custom Report Builder Filters",
      "1. What's new in the workflows editor",
      "2. new filters",
      "3. Beta",
      "New Industry Edit Collection",
      "Learn more about sequences" }

DocDescs == {"", DescBeta}

Docs ==
    [kind : {"feed"}, title : PostTitles, desc : DocDescs,
     layout : {"h4"}, subs : {<<>>}]
        \cup [kind : {"releasebot"}, title : PostTitles, desc : DocDescs,
              layout : {"h4"}, subs : SeqsUpTo(SubHeadings, MaxSubs)]
        \cup [kind : {"community"}, title : PostTitles, desc : DocDescs,
              layout : {"h4", "strong"}, subs : SeqsUpTo(SubHeadings, MaxSubs)]

RunDevChangelog ==
    /\ doc.kind = "feed" /\ ~ran
    /\ produced' = devItem(doc)
    /\ ran' = TRUE
    /\ UNCHANGED <<doc, scanVars, procVars, serverVars, communityVars,
                   classifyVars, slugVars, fetchVars>>

RunReleasebot ==
    /\ doc.kind = "releasebot" /\ ~ran
    /\ produced' = releasebotPost(doc, "releasebot-product")
    /\ ran' = TRUE
    /\ UNCHANGED <<doc, scanVars, procVars, serverVars, communityVars,
                   classifyVars, slugVars, fetchVars>>

RunCommunity ==
    /\ doc.kind = "community" /\ ~ran
    /\ produced' = communityThread(doc)
    /\ ran' = TRUE
    /\ UNCHANGED <<doc, scanVars, procVars, serverVars, communityVars,
                   classifyVars, slugVars, fetchVars>>

InitAdapters ==
    /\ doc \in Docs
    /\ ran = FALSE
    /\ produced = <<>>
    /\ ScanInit /\ ProcIdle /\ ClassifyIdle /\ SlugIdle /\ FetchIdle
    /\ ServerIdle
    /\ CommunityIdle

NextAdapters == RunDevChangelog \/ RunReleasebot \/ RunCommunity

SpecAdapters == InitAdapters /\ [][NextAdapters]_vars

----------------------------------------------------------------------------
(* fetchURL: one call with the default maxRetries *)

DefaultMaxRetries == 2

Urls ==
    {"https://developers.hubspot.com/changelog/rss.xml",
     "https://releasebot.io/updates/hubspot"}

Bodies == {"", "<rss><channel></channel></rss>"}

Statuses == {200, 204, 404, 503}

\* what one attempt can meet: fetch rejects, the 15 s AbortSignal fires, a
\* response arrives, or a response arrives whose body cannot be read
FetchOutcomes ==
    [kind : {"error", "timeout"}, status : {0}, body : {""}]
        \cup [kind : {"response"}, status : Statuses, body : Bodies]
        \cup [kind : {"bodyError"}, status : {200}, body : {""}]

\* a response with any status counts as a success
ok_anyStatus(res) == TRUE

\* Response.ok
ok(res) == res.status >= 200 /\ res.status <= 299

\* the try block runs to its return
tryReturns(o) == o.kind = "response" /\ ok(o)

\* one iteration of the loop up to its return or its sleep
FetchAttempt ==
    /\ fetchPc = "attempting"
    /\ attempt <= DefaultMaxRetries
    /\ \E o \in FetchOutcomes :
          /\ fetchLog' = Append(fetchLog, o)
          /\ IF tryReturns(o)
                THEN fetchResult' = JsString(o.body) /\ fetchPc' = "returned"
             ELSE IF attempt = DefaultMaxRetries
                THEN fetchResult' = JsNull /\ fetchPc' = "returned"
             ELSE fetchPc' = "sleeping" /\ UNCHANGED fetchResult
    /\ UNCHANGED <<url, attempt, slept, scanVars, classifyVars, slugVars, procVars,
                   serverVars, communityVars, adapterVars>>

\* await new Promise(r => setTimeout(r, 1000 * (attempt + 1))); attempt++
FetchBackoff ==
    /\ fetchPc = "sleeping"
    /\ slept' = Append(slept, 1000 * (attempt + 1))
    /\ attempt' = attempt + 1
    /\ fetchPc' = "attempting"
    /\ UNCHANGED <<url, fetchLog, fetchResult, scanVars, classifyVars, slugVars, procVars,
                   serverVars, communityVars, adapterVars>>

InitFetch ==
    /\ url \in Urls
    /\ attempt = 0
    /\ fetchPc = "attempting"
    /\ fetchLog = <<>>
    /\ slept = <<>>
    /\ fetchResult = JsUndefined
    /\ ScanInit
    /\ ClassifyIdle
    /\ SlugIdle
    /\ ProcIdle
    /\ ServerIdle
    /\ CommunityIdle
    /\ AdaptersIdle

NextFetch == FetchAttempt \/ FetchBackoff

SpecFetch == InitFetch /\ [][NextFetch]_vars

----------------------------------------------------------------------------
(* The scan process step by step: main of index.js run from the command    *)
(* line or as the child process of GET /api/scan, one process at a time,    *)
(* with the failures of the adapters and of the two writes                  *)

\* scan processes started over one run of the model
MaxRuns == 2

\* the lists an adapter can return, as the raw items it extracted
DevLists ==
    { <<>>,
      <<Raw(TitleA, DescBeta, "dev-changelog")>>,
      <<Raw(TitleA, DescLive, "dev-changelog"),
        Raw(TitleB, DescLong, "dev-changelog")>> }

ReleasebotLists == { <<>>, <<Raw(TitleA, DescShort, "releasebot-product")>> }

CommunityLists ==
    { <<>>,
      <<Raw(TitleA2, "", "community")>>,
      <<Raw(TitleA, DescLong, "community"),
        Raw(TitleB, DescBeta, "community")>> }

Candidates(raws) == [i \in 1..Len(raws) |-> CandidateOf[raws[i]]]

\* the adapters Promise.all waits for
Lightweight == {"parseDevChangelog", "parseProductUpdates", "parseReleasebot"}

\* the promise of Promise.any: fulfilled as soon as one adapter has returned
allFulfilled_any(ad) == \E a \in Lightweight : ad[a].st = "returned"

\* the promise of Promise.all is fulfilled
allFulfilled(ad) == \A a \in Lightweight : ad[a].st = "returned"

\* the process is between its start and its exit
ProcRunning ==
    pc \in {"adapters", "community", "settled", "merged", "saved", "logged"}

\* the process has written STATE_FILE
Wrote == pc \in {"saved", "logged"}

\* main up to the await of Promise.all: loadState; parseDevChangelog and
\* parseReleasebot run up to their first await, parseProductUpdates returns
StartScan ==
    /\ pc \in {"idle", "done", "failed"}
    /\ pc # "idle" /\ trigger = "api" => response # 0
    /\ clock <= MaxRuns
    /\ trigger' \in {"cli", "api"}
    /\ clock' = clock + 1
    /\ state' = stateFile
    /\ adapter' = [a \in AdapterNames |->
                      IF a = "parseProductUpdates" THEN Returned(<<>>)
                      ELSE IF a \in Lightweight THEN Running
                      ELSE Pending]
    /\ allItems' = <<>>
    /\ deduped' = <<>>
    /\ changes' = NoChanges
    /\ stdout' = <<>>
    /\ response' = 0
    /\ pc' = "adapters"
    /\ UNCHANGED <<emitted, history, stateFile, completed, cut, fnVars>>

\* the adapter a returns a list, or raises: main().catch then exits with 1
Settle(a, lists) ==
    /\ adapter[a].st = "running"
    /\ \/ /\ \E raws \in lists :
                adapter' = [adapter EXCEPT ![a] = Returned(Candidates(raws))]
          /\ UNCHANGED pc
       \/ /\ adapter' = [adapter EXCEPT ![a] = Raised]
          /\ pc' = "failed"

SettleDevChangelog ==
    /\ pc = "adapters"
    /\ Settle("parseDevChangelog", DevLists)
    /\ UNCHANGED <<clock, emitted, state, allItems, deduped, changes, history,
                   stateFile, trigger, stdout, response, completed, cut, fnVars>>

SettleReleasebot ==
    /\ pc = "adapters"
    /\ Settle("parseReleasebot", ReleasebotLists)
    /\ UNCHANGED <<clock, emitted, state, allItems, deduped, changes, history,
                   stateFile, trigger, stdout, response, completed, cut, fnVars>>

\* Promise.all is fulfilled; main calls parseCommunityUpdates
StartCommunity ==
    /\ pc = "adapters"
    /\ allFulfilled(adapter)
    /\ adapter' = [adapter EXCEPT !["parseCommunityUpdates"] = Running]
    /\ pc' = "community"
    /\ UNCHANGED <<clock, emitted, state, allItems, deduped, changes, history,
                   stateFile, trigger, stdout, response, completed, cut, fnVars>>

\* parseCommunityUpdates returns (its catch returns []), or its finally
\* raises; on its return main builds allItems
SettleCommunity ==
    /\ pc = "community"
    /\ \/ /\ \E raws \in CommunityLists :
                /\ adapter' = [adapter EXCEPT
                                  !["parseCommunityUpdates"] = Returned(Candidates(raws))]
                /\ allItems' = adapter["parseDevChangelog"].items
                                  \o Candidates(raws)
                                  \o adapter["parseProductUpdates"].items
                                  \o adapter["parseReleasebot"].items
          /\ pc' = "settled"
       \/ /\ adapter' = [adapter EXCEPT !["parseCommunityUpdates"] = Raised]
          /\ pc' = "failed"
          /\ UNCHANGED allItems
    /\ UNCHANGED <<clock, emitted, state, deduped, changes, history,
                   stateFile, trigger, stdout, response, completed, cut, fnVars>>

\* deduplicate; mergeResults; state.lastScan; state.scanCount
DedupeAndMerge ==
    /\ pc = "settled"
    /\ LET d == dedupe(allItems)
           m == mergeResults(state.betas, d, clock)
       IN  /\ deduped' = d
           /\ changes' = m.changes
           /\ state' = [ betas     |-> m.betas,
                         lastScan  |-> clock,
                         scanCount |-> nextScanCount(state) ]
    /\ pc' = "merged"
    /\ UNCHANGED <<clock, emitted, allItems, history, stateFile,
                   procVars, fnVars>>

\* saveState(state): fs.writeFileSync writes the file or throws
SaveState ==
    /\ pc = "merged"
    /\ \/ stateFile' = state /\ pc' = "saved"
       \/ pc' = "failed" /\ UNCHANGED stateFile
    /\ UNCHANGED <<clock, emitted, state, allItems, deduped, changes, history,
                   procVars, fnVars>>

\* saveHistory({ changes, itemsFound }): appends to the day's file, or one
\* of mkdirSync, JSON.parse(readFileSync) and writeFileSync throws
SaveHistory ==
    /\ pc = "saved"
    /\ \/ /\ history' = saveHistory(history,
                             [changes |-> changes, itemsFound |-> Len(deduped)],
                             clock)
          /\ pc' = "logged"
          /\ UNCHANGED cut
       \/ /\ pc' = "failed"
          /\ cut' = cut + 1
          /\ UNCHANGED history
    /\ UNCHANGED <<clock, emitted, state, allItems, deduped, changes, stateFile,
                   adapter, trigger, stdout, response, completed, fnVars>>

\* the report goes to stdout and main returns
\* generateJSON(state, changes); byStatus as status -> count, unsorted
generateJSON(st, chg, now) ==
    [ generated    |-> now,
      totalTracked |-> Cardinality(DOMAIN st.betas),
      scanCount    |-> st.scanCount,
      changes      |-> chg,
      summary      |->
          [ newCount           |-> Len(chg.new),
            statusChangedCount |-> Len(chg.statusChanged),
            byStatus           |->
                [ status \in {st.betas[id].status : id \in DOMAIN st.betas} |->
                    Cardinality({id \in DOMAIN st.betas :
                                    st.betas[id].status = status}) ] ] ]

\* the item counts the adapters and main log on their way: "Found n items",
\* "n items total from Releasebot", "Community total: n items", "Total unique
\* items found: n"
loggedCounts(ad, unique) ==
    << Len(ad["parseDevChangelog"].items), Len(ad["parseReleasebot"].items),
       Len(ad["parseCommunityUpdates"].items), Len(unique) >>

\* the standard output of a scan that ran to its end: the logged counts and
\* the report
PrintReport ==
    /\ pc = "logged"
    /\ stdout' = << [ log    |-> loggedCounts(adapter, deduped),
                      report |-> generateJSON(state, changes, clock) ] >>
    /\ completed' = completed + 1
    /\ pc' = "done"
    /\ UNCHANGED <<clock, emitted, state, allItems, deduped, changes, history,
                   stateFile, adapter, trigger, response, cut, fnVars>>

\* execFile(..., { timeout: 60000 }) kills the child process
ScanTimeout ==
    /\ trigger = "api"
    /\ ProcRunning
    /\ pc' = "failed"
    /\ cut' = IF Wrote THEN cut + 1 ELSE cut
    /\ UNCHANGED <<clock, emitted, state, allItems, deduped, changes, history,
                   stateFile, adapter, trigger, stdout, response, completed,
                   fnVars>>

\* the report is printed with JSON.stringify(..., null, 2): of its lines only
\* the first, "{", starts with a brace
braceLines(out) == [k \in 1..Len(out) |-> "{"]

\* stdout.split('\n').filter(l => l.startsWith('{')).pop() || '{}'
lastBraceLine(out) ==
    IF braceLines(out) = <<>> THEN "{}" ELSE braceLines(out)[Len(braceLines(out))]

\* JSON.parse returns for a complete object and throws for a lone brace
jsonParses(line) == line = "{}"

\* every scan is answered as a success
scanStatus_ok(ended, out) == 200

\* res.json({ ok: true, output }) when the child exited with 0 and JSON.parse
\* returned, res.status(500) in the catch
scanStatus(ended, out) ==
    IF ended = "done" /\ jsonParses(lastBraceLine(out)) THEN 200 ELSE 500

\* GET /api/scan answers once the child process has ended
Respond ==
    /\ trigger = "api"
    /\ pc \in {"done", "failed"}
    /\ response = 0
    /\ response' = scanStatus(pc, stdout)
    /\ UNCHANGED <<scanVars, adapter, trigger, stdout, completed, cut, fnVars>>

InitScan ==
    ScanInit /\ ProcIdle /\ ClassifyIdle /\ SlugIdle /\ FetchIdle /\ AdaptersIdle
    /\ ServerIdle
    /\ CommunityIdle

NextScan ==
    \/ StartScan
    \/ SettleDevChangelog
    \/ SettleReleasebot
    \/ StartCommunity
    \/ SettleCommunity
    \/ DedupeAndMerge
    \/ SaveState
    \/ SaveHistory
    \/ PrintReport
    \/ ScanTimeout
    \/ Respond

SpecScan == InitScan /\ [][NextScan]_vars

----------------------------------------------------------------------------
(* The triggers: GET /api/scan of server.js and the cron's node index.js *)

\* process.env.API_KEY as the deployments set it
ApiKeys == {"", "s3cret"}

\* req.query.key and req.headers['x-api-key']
SuppliedKeys == {JsUndefined, JsString(""), JsString("s3cret"), JsString("guess")}

\* a value JavaScript takes for false (of those a key can have)
falsy(v) == v.type \in {"undefined", "null"} \/ v = JsString("")

\* a || b
orElse(a, b) == IF falsy(a) THEN b ELSE a

\* const key = req.query.key || req.headers['x-api-key']
suppliedKey(query, header) == orElse(query, header)

\* the request is refused on the comparison alone
unauthorized_keyOnly(key, configured) == key # JsString(configured)

\* if (!API_KEY || key !== API_KEY) return res.status(401)
unauthorized(key, configured) == configured = "" \/ key # JsString(configured)

\* what the sources deliver to one scan of this section
ScanLists == {Candidates(raws) : raws \in DevLists}

\* the processes a trigger can still start
FreeProcs == {p \in 1..MaxProcs : procs[p].pc = "none"}

\* the process the next trigger starts
nextProc == CHOOSE p \in FreeProcs : \A q \in FreeProcs : p <= q

\* execFile('node', [index.js, '--json']) and the cron's node index.js; main
\* begins with const state = loadState()
spawn(p, by) ==
    [procs EXCEPT ![p] = [NoProc EXCEPT !.pc = "loaded", !.by = by,
                                         !.state = stateFile]]

\* GET /api/scan: 401, or a child process is started
GetScan ==
    \E query \in SuppliedKeys, header \in SuppliedKeys :
        IF unauthorized(suppliedKey(query, header), apiKey)
        THEN /\ request' = [query |-> query, header |-> header, status |-> 401,
                              proc |-> 0]
             /\ UNCHANGED <<procs, apiKey, scanVars, procVars, classifyVars,
                            slugVars, fetchVars, adapterVars, communityVars>>
        ELSE /\ FreeProcs # {}
             /\ procs' = spawn(nextProc, "api")
             /\ request' = [query |-> query, header |-> header, status |-> 0,
                              proc |-> nextProc]
             /\ UNCHANGED <<apiKey, scanVars, procVars, classifyVars,
                            slugVars, fetchVars, adapterVars, communityVars>>

\* the cron starts node index.js
CronScan ==
    /\ FreeProcs # {}
    /\ procs' = spawn(nextProc, "cli")
    /\ UNCHANGED <<request, apiKey, scanVars, procVars, classifyVars,
                   slugVars, fetchVars, adapterVars, communityVars>>

\* what GET /api/scan answers for the process me once it has ended as
\* ended; the cron's process answers nobody
answer(me, ended, out) == IF me.by = "api" THEN scanStatus(ended, out) ELSE 0

\* a process that has ended keeps nothing in memory
ended(me, how, out) ==
    [NoProc EXCEPT !.pc = how, !.by = me.by, !.response = answer(me, how, out)]

\* main after loadState: the adapters settle, the items are deduplicated and
\* merged into the state in memory, lastScan and scanCount are set, saveState,
\* saveHistory, the report; the process exits with 0. The scans of this
\* section fall within one tick of the clock.
FinishScan(p) ==
    /\ procs[p].pc = "loaded"
    /\ \E items \in ScanLists :
          LET me == procs[p]
              d == dedupe(items)
              m == mergeResults(me.state.betas, d, clock)
              st == [ betas     |-> m.betas,
                      lastScan  |-> clock,
                      scanCount |-> nextScanCount(me.state) ]
              ad == [a \in AdapterNames |->
                        IF a = "parseDevChangelog"
                        THEN Returned(items) ELSE Returned(<<>>)]
              out == << [ log    |-> loggedCounts(ad, d),
                          report |-> generateJSON(st, m.changes, clock) ] >>
          IN  /\ stateFile' = st
              /\ history' = saveHistory(history,
                                [changes |-> m.changes, itemsFound |-> Len(d)],
                                clock)
              /\ procs' = [procs EXCEPT ![p] = ended(me, "done", out)]
    /\ UNCHANGED <<pc, clock, emitted, state, allItems, deduped, changes,
                   request, apiKey, procVars, classifyVars, slugVars,
                   fetchVars, adapterVars, communityVars>>

\* an adapter or a write raises, or the 60 s of execFile run out: the
\* process ends without writing
AbortScan(p) ==
    /\ procs[p].pc = "loaded"
    /\ procs' = [procs EXCEPT ![p] = ended(procs[p], "failed", <<>>)]
    /\ UNCHANGED <<request, apiKey, scanVars, procVars, classifyVars,
                   slugVars, fetchVars, adapterVars, communityVars>>

InitServer ==
    /\ ScanInit /\ ProcIdle /\ ClassifyIdle /\ SlugIdle /\ FetchIdle
    /\ AdaptersIdle
    /\ CommunityIdle
    /\ apiKey \in ApiKeys
    /\ procs = [p \in 1..MaxProcs |-> NoProc]
    /\ request = NoRequest

NextServer ==
    \/ GetScan
    \/ CronScan
    \/ \E p \in 1..MaxProcs : FinishScan(p)
    \/ \E p \in 1..MaxProcs : AbortScan(p)

SpecServer == InitServer /\ [][NextServer]_vars

----------------------------------------------------------------------------
(* parseCommunityUpdates step by step: the browser session and its pages *)

RoundupTitle == "Top Product Updates for March"

\* threads of the board: two monthly posts and a standalone post
PostOctober ==
    [kind |-> "community", title |-> MonthlyTitle, desc |-> DescBeta,
     layout |-> "h4", subs |-> <<"1. Custom Report Builder Filters">>]
PostRoundup ==
    [kind |-> "community", title |-> RoundupTitle, desc |-> "",
     layout |-> "h4", subs |-> <<"2. New Sequence Automation Beta">>]
PostBeta ==
    [kind |-> "community", title |-> TitleB \o " Improvements", desc |-> "",
     layout |-> "h4", subs |-> <<>>]

\* what page.evaluate finds on the board
Boards ==
    { <<>>, <<PostBeta>>, <<PostOctober>>, <<PostOctober, PostBeta>>,
      <<PostRoundup, PostOctober>>, <<PostBeta, PostOctober, PostRoundup>> }

\* threads.filter(t => /top product updates for|.../i.test(t.text))
monthlyPosts(threads) ==
    SelectSeq(threads, LAMBDA t : test(MonthlyPost, t.title))

\* threads.filter(t => !monthlyPosts.includes(t) && !/(release notes|...)/i.test(t.text))
standalonePosts(threads) ==
    SelectSeq(threads, LAMBDA t : /\ ~test(MonthlyPost, t.title)
                                  /\ ~test(NotStandalone, t.title))

\* Step 3: the items of the standalone posts
standaloneItems(threads) ==
    FlatRange(LAMBDA k : standalonePost(standalonePosts(threads)[k]),
              1, Len(standalonePosts(threads)))

\* a line of the log
Line(ev, n) == [ev |-> ev, n |-> n]

\* a session that is never closed
mustClose_never(session) == FALSE

\* finally: if (browser)
mustClose(session) == session # "none"

\* browser.close() also closes the pages of the session
allClosed(pgs) == [i \in 1..Len(pgs) |-> "closed"]

\* the outer catch: the error is logged and [] is returned, after the finally
Caught ==
    /\ clog' = Append(clog, Line("scrape failed", 0))
    /\ creturn' = Returned(<<>>)
    /\ cpc' = "finally"

\* ({ chromium } = await import('playwright')), or return [] in its catch
ImportPlaywright ==
    /\ cpc = "import"
    /\ \/ cpc' = "launch" /\ UNCHANGED <<clog, creturn>>
       \/ /\ clog' = Append(clog, Line("not available", 0))
          /\ creturn' = Returned(<<>>)
          /\ cpc' = "ended"
    /\ UNCHANGED <<board, browser, pages, postNo, results, scanVars, procVars,
                   classifyVars, slugVars, fetchVars, adapterVars, serverVars>>

\* browser = await chromium.launch({ headless: true })
Launch ==
    /\ cpc = "launch"
    /\ \/ browser' = "open" /\ cpc' = "board" /\ UNCHANGED <<clog, creturn>>
       \/ Caught /\ UNCHANGED browser
    /\ UNCHANGED <<board, pages, postNo, results, scanVars, procVars,
                   classifyVars, slugVars, fetchVars, adapterVars, serverVars>>

\* Step 1: browser.newPage(), page.goto(board), page.evaluate, the two filters
LoadBoard ==
    /\ cpc = "board"
    /\ \/ /\ pages' = <<"open">>
          /\ clog' = Append(clog, Line("threads", Len(board)))
          /\ postNo' = 1
          /\ cpc' = "posts"
          /\ UNCHANGED creturn
       \/ Caught /\ UNCHANGED <<pages, postNo>>
       \/ Caught /\ pages' = <<"open">> /\ UNCHANGED postNo
    /\ UNCHANGED <<board, browser, results, scanVars, procVars,
                   classifyVars, slugVars, fetchVars, adapterVars, serverVars>>

\* Step 2, one round of the loop: const postPage = await browser.newPage()
OpenPost ==
    /\ cpc = "posts"
    /\ postNo <= Len(monthlyPosts(board))
    /\ \/ /\ pages' = Append(pages, "open")
          /\ clog' = Append(clog, Line("drilling", postNo))
          /\ cpc' = "drill"
          /\ UNCHANGED creturn
       \/ /\ Caught
          /\ UNCHANGED pages
    /\ UNCHANGED <<board, browser, postNo, results, scanVars, procVars,
                   classifyVars, slugVars, fetchVars, adapterVars, serverVars>>

\* try { postPage.goto; waitForSelector; postPage.evaluate; results.push }
\* catch { log }
Drill ==
    /\ cpc = "drill"
    /\ \/ /\ results' = results \o monthlyPost(monthlyPosts(board)[postNo])
          /\ clog' = Append(clog, Line("extracted", postNo))
       \/ /\ clog' = Append(clog, Line("failed", postNo))
          /\ UNCHANGED results
    /\ cpc' = "close"
    /\ UNCHANGED <<board, browser, pages, postNo, creturn, scanVars, procVars,
                   classifyVars, slugVars, fetchVars, adapterVars, serverVars>>

\* finally { await postPage.close() }
ClosePost ==
    /\ cpc = "close"
    /\ \/ /\ pages' = [pages EXCEPT ![Len(pages)] = "closed"]
          /\ postNo' = postNo + 1
          /\ cpc' = "posts"
          /\ UNCHANGED <<clog, creturn>>
       \/ /\ Caught
          /\ UNCHANGED <<pages, postNo>>
    /\ UNCHANGED <<board, browser, results, scanVars, procVars,
                   classifyVars, slugVars, fetchVars, adapterVars, serverVars>>

\* Step 3 and return results
Standalone ==
    /\ cpc = "posts"
    /\ postNo > Len(monthlyPosts(board))
    /\ results' = results \o standaloneItems(board)
    /\ clog' = Append(clog, Line("total", Len(results')))
    /\ creturn' = Returned(results')
    /\ cpc' = "finally"
    /\ UNCHANGED <<board, browser, pages, postNo, scanVars, procVars,
                   classifyVars, slugVars, fetchVars, adapterVars, serverVars>>

\* finally { if (browser) await browser.close() }: the call returns, or
\* raises what browser.close() raised
Finally ==
    /\ cpc = "finally"
    /\ IF mustClose(browser)
       THEN \/ /\ browser' = "closed"
               /\ pages' = allClosed(pages)
               /\ UNCHANGED creturn
            \/ /\ creturn' = Raised
               /\ UNCHANGED <<browser, pages>>
       ELSE UNCHANGED <<browser, pages, creturn>>
    /\ cpc' = "ended"
    /\ UNCHANGED <<board, postNo, results, clog, scanVars, procVars,
                   classifyVars, slugVars, fetchVars, adapterVars, serverVars>>

InitCommunity ==
    /\ ScanInit /\ ProcIdle /\ ClassifyIdle /\ SlugIdle /\ FetchIdle
    /\ AdaptersIdle /\ ServerIdle
    /\ board \in Boards
    /\ cpc = "import"
    /\ browser = "none"
    /\ pages = <<>>
    /\ postNo = 0
    /\ results = <<>>
    /\ clog = <<>>
    /\ creturn = Pending

NextCommunity ==
    \/ ImportPlaywright
    \/ Launch
    \/ LoadBoard
    \/ OpenPost
    \/ Drill
    \/ ClosePost
    \/ Standalone
    \/ Finally

SpecCommunity == InitCommunity /\ [][NextCommunity]_vars

----------------------------------------------------------------------------
(* Vocabulary of the properties *)

Range(seq) == {seq[i] : i \in 1..Len(seq)}

\* a step of MergeAndSave: the merge of deduped' into state.betas at time clock
IsMerge == pc = "collected" /\ pc' = "idle"

\* the positions of a Change Set list that hold a candidate of identity id
Listed(list, id) == {k \in 1..Len(list) : list[k].id = id}

HasReal(hubs) == \E h \in Range(hubs) : h # Platform

IsPrefix(a, b) == Len(a) <= Len(b) /\ SubSeq(b, 1, Len(a)) = a

----------------------------------------------------------------------------
(* Properties of the classifier, checked under SpecClassify *)

\* the order of the labels as the specification states it
StatedOrder ==
    <<"public beta", "private beta", "developer preview", "early access",
      "now live", "sunset", "breaking change", "live", "update">>

\* label has a keyword occurring in the lower-cased text
LabelMatches(label) == someIncluded(toLowerCase(text), STATUS_KEYWORDS[label])

\* category has a keyword occurring in the lower-cased text
HubMatches(hub) == someIncluded(toLowerCase(text), HUB_KEYWORDS[hub])

MatchingHubs == {hub \in DOMAIN HUB_KEYWORDS : HubMatches(hub)}

\* C9: detectStatus returns the first label of the stated order that has a
\* keyword occurring in the lower-cased text, and 'update' when no label has
\* one; a text with a 'public beta' or 'private beta' keyword is never
\* classified 'update', whatever 'update' keywords it also holds.
C9_FirstLabelWins ==
    outStatus # NoResult =>
        /\ (\A i \in 1..Len(StatedOrder) : ~LabelMatches(StatedOrder[i]))
               => outStatus = "update"
        /\ \A i \in 1..Len(StatedOrder) :
               ( /\ LabelMatches(StatedOrder[i])
                 /\ \A j \in 1..(i - 1) : ~LabelMatches(StatedOrder[j]) )
               => outStatus = StatedOrder[i]
        /\ (LabelMatches("public beta") \/ LabelMatches("private beta"))
               => outStatus # "update"

\* C9 witness: a text with a 'public beta' keyword and an 'update' keyword was
\* classified
C9_Witness ==
    /\ outStatus = "public beta"
    /\ LabelMatches("public beta")
    /\ LabelMatches("update")

\* C10: detectHubs returns exactly the categories that have a keyword
\* occurring in the lower-cased text, each once, and the single placeholder
\* exactly when none has; the result is never empty and never holds the
\* placeholder together with a real category.
C10_AllMatchingHubs ==
    outHubs # NoResult =>
        /\ Len(outHubs) > 0
        /\ Cardinality(Range(outHubs)) = Len(outHubs)
        /\ MatchingHubs # {} => Range(outHubs) = MatchingHubs
        /\ MatchingHubs = {} <=> outHubs = <<Platform>>
        /\ ~(Platform \in Range(outHubs) /\ HasReal(outHubs))

\* C10 witness: a text matching several categories was classified
C10_Witness ==
    /\ outHubs # NoResult
    /\ Cardinality(MatchingHubs) >= 3
    /\ Len(outHubs) >= 3

----------------------------------------------------------------------------
(* Properties of the merge engine and of deduplication, checked under Spec *)

\* C1: a candidate of a tracked identity whose status differs from the stored
\* status and is not the fallback makes the stored status its own, appends
\* exactly one entry {status, date, source, previousStatus: old status} to the
\* Status History, and is listed once in statusChanged with that previousStatus.
C1_StatusTransition ==
    [][ IsMerge =>
        \A i \in 1..Len(deduped') :
            LET c == deduped'[i] IN
            ( /\ c.id \in DOMAIN state.betas
              /\ c.status # state.betas[c.id].status
              /\ c.status # "update" )
            => LET old == state.betas[c.id]
                   new == state'.betas[c.id]
               IN  /\ new.status = c.status
                   /\ new.statusHistory =
                        Append(old.statusHistory,
                               [status |-> c.status, date |-> clock,
                                source |-> c.source,
                                previousStatus |-> old.status])
                   /\ Cardinality(Listed(changes'.statusChanged, c.id)) = 1
                   /\ \A k \in Listed(changes'.statusChanged, c.id) :
                        changes'.statusChanged[k] =
                            c @@ ("previousStatus" :> old.status)
      ]_vars

\* C1 witness: an item found in 'public beta' was merged with a 'now live'
\* candidate: history of length 2, previousStatus 'public beta', one
\* statusChanged entry
C1_Witness ==
    /\ pc = "idle"
    /\ \E id \in DOMAIN state.betas :
          LET item == state.betas[id] IN
          /\ item.status = "now live"
          /\ Len(item.statusHistory) = 2
          /\ item.statusHistory[1].status = "public beta"
          /\ item.statusHistory[2].previousStatus = "public beta"
          /\ item.statusHistory[2].date = clock
          /\ Listed(changes.statusChanged, id) # {}

\* C2: a candidate of a tracked identity whose status is the fallback 'update'
\* leaves the stored status and the Status History as they are and is not
\* listed in statusChanged; when its description is strictly longer than the
\* stored one, the description is replaced and it is listed in updated.
C2_FallbackNeverTransitions ==
    [][ IsMerge =>
        \A i \in 1..Len(deduped') :
            LET c == deduped'[i] IN
            (c.id \in DOMAIN state.betas /\ c.status = "update")
            => LET old == state.betas[c.id]
                   new == state'.betas[c.id]
               IN  /\ new.status = old.status
                   /\ new.statusHistory = old.statusHistory
                   /\ Listed(changes'.statusChanged, c.id) = {}
                   /\ Len(c.description) > Len(old.description)
                        => /\ new.description = c.description
                           /\ \E k \in Listed(changes'.updated, c.id) :
                                changes'.updated[k] = c
      ]_vars

\* C2 witness: an item with a specific status was merged with a fallback
\* candidate of longer description: status kept, description replaced
C2_Witness ==
    /\ pc = "idle"
    /\ \E k \in 1..Len(changes.updated) :
          LET c == changes.updated[k]
              item == state.betas[c.id]
          IN  /\ c.status = "update"
              /\ item.status = "public beta"
              /\ item.description = c.description
              /\ Len(item.statusHistory) = 1
              /\ item.firstSeen < clock

\* C3: a candidate whose identity is absent from the store creates one item
\* under its key with the candidate's status, firstSeen = lastSeen = scan
\* time and a Status History of the single entry (status, scan time, source)
\* without previousStatus; it is listed once in new and in neither
\* statusChanged nor updated; no other key is added.
C3_NewItem ==
    [][ IsMerge =>
        /\ DOMAIN state'.betas =
              DOMAIN state.betas \cup {deduped'[i].id : i \in 1..Len(deduped')}
        /\ \A i \in 1..Len(deduped') :
              LET c == deduped'[i] IN
              c.id \notin DOMAIN state.betas
              => LET new == state'.betas[c.id] IN
                 /\ new.status = c.status
                 /\ new.firstSeen = clock
                 /\ new.lastSeen = clock
                 /\ new.statusHistory =
                      <<[status |-> c.status, date |-> clock, source |-> c.source]>>
                 /\ Cardinality(Listed(changes'.new, c.id)) = 1
                 /\ \A k \in Listed(changes'.new, c.id) : changes'.new[k] = c
                 /\ Listed(changes'.statusChanged, c.id) = {}
                 /\ Listed(changes'.updated, c.id) = {}
      ]_vars

\* C3 witness: a 'public beta' candidate was merged into the empty store
C3_Witness ==
    /\ pc = "idle"
    /\ state.scanCount = 1
    /\ Len(changes.new) = 1
    /\ LET c == changes.new[1] IN
          /\ DOMAIN state.betas = {c.id}
          /\ c.status = "public beta"
          /\ state.betas[c.id].status = "public beta"
          /\ Len(state.betas[c.id].statusHistory) = 1

\* C4: the stored description of a tracked item never gets shorter; it
\* changes only to the strictly longer description of a candidate merged in
\* that scan, and that candidate is then listed in updated, also when the
\* same merge records a status transition.
C4_DescriptionOnlyLengthens ==
    [][ \A id \in DOMAIN state.betas :
          /\ id \in DOMAIN state'.betas
          /\ LET old == state.betas[id]
                 new == state'.betas[id]
             IN  /\ Len(new.description) >= Len(old.description)
                 /\ new.description # old.description
                      => /\ IsMerge
                         /\ Len(new.description) > Len(old.description)
                         /\ \E k \in Listed(changes'.updated, id) :
                              /\ changes'.updated[k].description = new.description
                              /\ changes'.updated[k] \in Range(deduped')
                 /\ \A i \in 1..Len(deduped') :
                      ( /\ IsMerge
                        /\ deduped'[i].id = id
                        /\ Len(deduped'[i].description) > Len(old.description) )
                      => /\ new.description = deduped'[i].description
                         /\ deduped'[i] \in Range(changes'.updated)
      ]_vars

\* C4 witness: one merge both recorded a status transition and replaced the
\* description of the same item
C4_Witness ==
    /\ pc = "idle"
    /\ \E id \in DOMAIN state.betas :
          /\ Listed(changes.statusChanged, id) # {}
          /\ \E k \in Listed(changes.updated, id) :
                state.betas[id].description = changes.updated[k].description


\* the fields of a tracked item that a repeated merge must leave alone
Settled(item) ==
    [ status        |-> item.status,
      statusHistory |-> item.statusHistory,
      description   |-> item.description,
      hubs          |-> item.hubs ]

C6_PlaceholderNeverReturns ==
    [][ /\ \A id \in DOMAIN state.betas :
              LET old == state.betas[id].hubs
                  new == state'.betas[id].hubs
              IN  /\ \A h \in Range(old) : h # Platform => h \in Range(new)
                  /\ HasReal(old) => Platform \notin Range(new)
        /\ \A id \in DOMAIN state'.betas :
              LET new == state'.betas[id].hubs
              IN  ~(HasReal(new) /\ Platform \in Range(new))
      ]_vars

\* C6 witness: an item holding a real category was merged with a candidate
\* whose categories are the placeholder alone
C6_Witness ==
    /\ pc = "idle"
    /\ \E i \in 1..Len(deduped) :
          LET item == state.betas[deduped[i].id] IN
          /\ deduped[i].hubs = <<Platform>>
          /\ item.firstSeen < clock
          /\ item.lastSeen = clock
          /\ HasReal(item.hubs)

\* the dates of a Status History never decrease along the sequence
DatesNonDecreasing(statusHistory) ==
    \A i \in 1..(Len(statusHistory) - 1) :
        statusHistory[i].date <= statusHistory[i + 1].date

\* C7: the Status History of every tracked item is append-only: each step
\* keeps the entries it had, unchanged and in place, adds entries only at the
\* end, and the dates of the entries never decrease along the sequence.
C7_HistoryAppendOnly ==
    [][ /\ \A id \in DOMAIN state.betas :
              /\ id \in DOMAIN state'.betas
              /\ IsPrefix(state.betas[id].statusHistory,
                          state'.betas[id].statusHistory)
        /\ \A id \in DOMAIN state'.betas :
              DatesNonDecreasing(state'.betas[id].statusHistory)
      ]_vars

\* C7 witness: an item went through three statuses in three scans
C7_Witness ==
    /\ pc = "idle"
    /\ \E id \in DOMAIN state.betas :
          LET h == state.betas[id].statusHistory IN
          /\ Len(h) = 3
          /\ h[1].date < h[2].date
          /\ h[2].date < h[3].date

\* the candidates of allItems with identity id after which none of the same
\* identity has a longer description and before which all are shorter
Representative(items, id) ==
    LET group == {j \in 1..Len(items) : items[j].id = id}
        longest == {j \in group :
                      \A k \in group :
                          Len(items[k].description) <= Len(items[j].description)}
    IN  items[CHOOSE j \in longest : \A k \in longest : j <= k]

\* C8: the deduplication step hands to the merge exactly one candidate per
\* identity key of the concatenated adapter output: the one of longest
\* description in its group, the earliest of them in input order.
C8_DedupLongestFirst ==
    pc = "idle" =>
        /\ {deduped[i].id : i \in 1..Len(deduped)}
              = {allItems[j].id : j \in 1..Len(allItems)}
        /\ \A i, k \in 1..Len(deduped) : deduped[i].id = deduped[k].id => i = k
        /\ \A i \in 1..Len(deduped) :
              deduped[i] = Representative(allItems, deduped[i].id)

\* C8 witness: of two candidates of one identity the later and longer one was
\* kept, and of two of equal length the earlier one
C8_Witness ==
    /\ pc = "idle"
    /\ Len(allItems) = 3
    /\ allItems[1].id = allItems[2].id
    /\ allItems[2].id = allItems[3].id
    /\ Len(allItems[1].description) < Len(allItems[2].description)
    /\ Len(allItems[2].description) = Len(allItems[3].description)
    /\ allItems[2] # allItems[3]
    /\ deduped = <<allItems[2]>>

----------------------------------------------------------------------------
(* Properties of the identity key, checked under SpecSlug *)

IsLetterOrDigit(c) ==
    IsIn(c, UpperChars) \/ IsIn(c, LowerChars) \/ IsIn(c, DigitChars)

\* the positions of t at which a run of letters and digits starts
RunStarts(t) ==
    {i \in 1..Len(t) :
        /\ IsLetterOrDigit(CharAt(t, i))
        /\ (i = 1 \/ ~IsLetterOrDigit(CharAt(t, i - 1)))}

\* the last position of the run that starts at position i
RunEnd(t, i) ==
    CHOOSE j \in i..Len(t) :
        /\ \A k \in i..j : IsLetterOrDigit(CharAt(t, k))
        /\ (j = Len(t) \/ ~IsLetterOrDigit(CharAt(t, j + 1)))

\* the maximal runs of letters and digits of t, in order, without their case
RunsOf(t) ==
    LET starts == RunStarts(t)
        nth(k) == CHOOSE i \in starts : Cardinality({x \in starts : x <= i}) = k
    IN  [k \in 1..Cardinality(starts) |->
            toLowerCase(SubSeq(t, nth(k), RunEnd(t, nth(k))))]

\* C11: two titles with the same sequence of alphanumeric runs up to letter
\* case, whatever the characters between, before and after the runs, get the
\* same identity key.
C11_KeyIgnoresCaseAndSeparators ==
    outSlugs # NoResult =>
        (RunsOf(titles[1]) = RunsOf(titles[2]) => outSlugs[1] = outSlugs[2])

\* C11 witness: two titles that differ in case, in their separators and in
\* their leading and trailing punctuation were given one key
C11_Witness ==
    /\ outSlugs # NoResult
    /\ titles[1] = "Beta Sync"
    /\ titles[2] = "(BETA -- Sync)!"
    /\ outSlugs[1] = outSlugs[2]
    /\ outSlugs[1] = "beta-sync"

----------------------------------------------------------------------------
(* Properties of fetchURL, checked under SpecFetch *)

\* an attempt that errors, times out, cannot read the body or gets a status
\* outside 200..299
AttemptFailed(o) == ~(o.kind = "response" /\ o.status \in 200..299)

\* C12: fetchURL makes at most 3 attempts; only the last attempt made can have
\* succeeded; a call that has returned gives the body of its last attempt
\* when that one succeeded, and otherwise has made 3 failed attempts and
\* gives null; a call that has not returned has made fewer than 3 attempts;
\* the only way out of the call is a return.
C12_FetchBoundedRetries ==
    /\ Len(fetchLog) <= 3
    /\ fetchPc \in {"attempting", "sleeping", "returned"}
    /\ \A i \in 1..(Len(fetchLog) - 1) : AttemptFailed(fetchLog[i])
    /\ fetchPc # "returned" =>
          /\ Len(fetchLog) < 3
          /\ \A i \in 1..Len(fetchLog) : AttemptFailed(fetchLog[i])
          /\ fetchResult = JsUndefined
    /\ (fetchPc = "returned" /\ fetchLog # <<>>) =>
          LET last == fetchLog[Len(fetchLog)] IN
          IF AttemptFailed(last)
            THEN Len(fetchLog) = 3 /\ fetchResult = JsNull
            ELSE fetchResult = JsString(last.body)

C12_Witness ==
    /\ fetchPc = "returned"
    /\ Len(fetchLog) = 3
    /\ fetchLog[1].kind = "timeout"
    /\ fetchLog[2].kind = "response" /\ fetchLog[2].status = 503
    /\ fetchLog[3].kind = "error"
    /\ slept = <<1000, 2000>>
    /\ fetchResult = JsNull

----------------------------------------------------------------------------
(* Properties of the scan process, checked under SpecScan *)

\* the snapshots of the History Log written at time t, as <<day, position>>
SnapshotsAt(t) ==
    {<<d, k>> \in UNION {{d} \X (1..Len(history[d])) : d \in DOMAIN history} :
        history[d][k].timestamp = t}

\* C13: an adapter that has raised has not ended the scan in failure: the
\* scan goes on with the lists of the other adapters.
C13_AdapterFailureIsolated ==
    \A a \in AdapterNames : adapter[a].st = "raised" => pc # "failed"

\* C14: while some adapter has not returned its list (it is not yet called,
\* still running, or has raised), nothing is deduplicated or merged and the
\* store in memory is the one loaded from STATE_FILE; the process is at or
\* past the merge only when every adapter has returned.
C14_MergeAfterAllSettled ==
    (\E a \in AdapterNames : adapter[a].st # "returned") =>
        /\ pc \notin {"settled", "merged", "saved", "logged", "done"}
        /\ state = stateFile
        /\ allItems = <<>>
        /\ deduped = <<>>
        /\ changes = NoChanges

C14_Witness ==
    /\ pc = "merged"
    /\ \A a \in AdapterNames : adapter[a].st = "returned"
    /\ adapter["parseDevChangelog"].items # <<>>
    /\ adapter["parseReleasebot"].items # <<>>
    /\ adapter["parseCommunityUpdates"].items # <<>>
    /\ Len(deduped) = 2
    /\ state # stateFile

\* the step that writes STATE_FILE
IsStoreWrite == pc = "merged" /\ pc' = "saved"

Unwritten == pc = "failed" /\ state # stateFile

\* C19: a scan that ended in failure with its merged store unwritten has
\* printed no report, has no snapshot in the History Log, and GET /api/scan
\* answers it with 500.
C19_WriteFailureSurfaced ==
    Unwritten =>
        /\ stdout = <<>>
        /\ SnapshotsAt(clock) = {}
        /\ response \in {0, 500}
        /\ stateFile.scanCount = state.scanCount - 1

C19_Witness ==
    /\ Unwritten
    /\ trigger = "api"
    /\ response = 500
    /\ changes.new # <<>>
    /\ history # <<>>

\* C20: a scan that has ended after writing the Item Store has exactly one
\* snapshot in the History Log, the last one of the current day's record.
C20_PersistedScanLogsOnce ==
    (pc \in {"done", "failed"} /\ stateFile.lastScan = clock) =>
        /\ Cardinality(SnapshotsAt(clock)) = 1
        /\ DayOf(clock) \in DOMAIN history
        /\ history[DayOf(clock)][Len(history[DayOf(clock)])].timestamp = clock

----------------------------------------------------------------------------
(* Properties of the source adapters, checked under SpecAdapters *)

\* C15: no Candidate Record an adapter has produced has a title that matches
\* a Noise, Rollup or Informational pattern.
C15_NoFilteredTitleEmitted ==
    \A k \in 1..Len(produced) :
        /\ ~isNoise(produced[k].title)
        /\ ~isRollupPost(produced[k].title)
        /\ ~isInformationalPost(produced[k].title)

\* C16: every Candidate Record an adapter has produced has a title of 15 to
\* 200 characters with at least one upper-case letter A-Z.
C16_EmittedTitlesWellFormed ==
    \A k \in 1..Len(produced) :
        /\ Len(produced[k].title) >= 15
        /\ Len(produced[k].title) <= 200
        /\ \E i \in 1..Len(produced[k].title) :
              IsIn(CharAt(produced[k].title, i), UpperChars)

\* the Releasebot post or monthly community post has no sub-heading at all
Unstructured ==
    /\ doc.subs = <<>>
    /\ \/ doc.kind = "releasebot"
       \/ doc.kind = "community" /\ test(MonthlyPost, doc.title)

\* the title passes the whole Title Filter
PassesFilter(title) ==
    /\ isValidTitle(title)
    /\ ~isRollupPost(title)
    /\ ~isInformationalPost(title)

\* C17 as stated: an expanding adapter that has gone through a document
\* without sub-heading structure has produced exactly one Candidate Record.
C17_Original ==
    (ran /\ Unstructured) => Len(produced) = 1

\* C17: for a document without sub-heading structure, the Releasebot adapter
\* produces exactly one Candidate Record, titled as the post, when the post
\* title passes the Title Filter and none otherwise, and the community
\* adapter produces none for a monthly post.
C17_FallbackOnlyForPassingTitles ==
    (ran /\ Unstructured) =>
        IF doc.kind = "releasebot" /\ PassesFilter(doc.title)
        THEN Len(produced) = 1 /\ produced[1].title = doc.title
        ELSE produced = <<>>

C17_Witness ==
    /\ ran
    /\ Unstructured
    /\ doc.kind = "releasebot"
    /\ doc.title = TitleA
    /\ Len(produced) = 1
    /\ produced[1].id = "new-sequence-automation-beta"

----------------------------------------------------------------------------
(* Properties of the scan's output, checked under SpecScan *)

\* the sources that contributed no candidate to the scan
ZeroSources == {a \in AdapterNames : adapter[a].items = <<>>}

\* every number the output of a scan carries
OutputNumbers(out) ==
    Range(out.log)
        \cup { out.report.totalTracked, out.report.scanCount,
               out.report.summary.newCount,
               out.report.summary.statusChangedCount,
               Len(out.report.changes.new),
               Len(out.report.changes.statusChanged),
               Len(out.report.changes.updated) }
        \cup { out.report.summary.byStatus[status] :
                   status \in DOMAIN out.report.summary.byStatus }

\* C21: the number of sources that contributed zero candidates is among the
\* numbers that the output of a completed scan carries.
C21_ReportCountsEmptySources ==
    pc = "done" =>
        \A k \in 1..Len(stdout) :
            Cardinality(ZeroSources) \in OutputNumbers(stdout[k])


\* the scan processes between loadState and the end of their writes
ActiveScans == {p \in 1..MaxProcs : procs[p].pc = "loaded"}

\* C22: a scan started by a trigger does not load the Item Store while
\* another scan is between its load and its persist: at most one scan is active.
C22_OneActiveScan == Cardinality(ActiveScans) <= 1

\* the configured key is not empty and the query or the header carries it
KeyMatches(query, header) ==
    apiKey # "" /\ (query = JsString(apiKey) \/ header = JsString(apiKey))

\* the scan processes started by GET /api/scan
StartedByApi == {p \in 1..MaxProcs : procs[p].by = "api" /\ procs[p].pc # "none"}

\* C25: GET /api/scan starts a scan only when the configured key is not empty
\* and the key supplied in the query or the header is equal to it; every other
\* request is answered 401 and starts no scan process.
C25_ScanNeedsMatchingKey ==
    /\ request.proc # 0 => KeyMatches(request.query, request.header)
    /\ request # NoRequest /\ ~KeyMatches(request.query, request.header)
          => request.status = 401 /\ request.proc = 0
    /\ apiKey = "" => StartedByApi = {}

\* a request with the key in the header alone has started a scan
C25_Witness ==
    /\ request.proc # 0
    /\ request.query = JsUndefined
    /\ procs[request.proc].by = "api"
    /\ procs[request.proc].pc = "loaded"

\* the origin sources a tracked item records: its sources list or, while it
\* has none, the source it was created from
OriginSources(tracked) ==
    IF "sources" \in DOMAIN tracked THEN Range(tracked.sources)
    ELSE {tracked.source}

\* C23: after a scan, the origin sources of a tracked item contain the source
\* of every candidate of its identity that the adapters produced in the scan,
\* same-scan duplicates included.
C23_SourcesCoverEveryCandidate ==
    pc = "idle" =>
        \A i \in 1..Len(allItems) :
            /\ allItems[i].id \in DOMAIN state.betas
            /\ allItems[i].source \in OriginSources(state.betas[allItems[i].id])

\* C24: deduplication is idempotent and deterministic: applied to its own
\* output it returns the same candidates in the same order, and applied again
\* to the same batch it returns the list it returned before.
C24_DedupIdempotent ==
    pc = "idle" =>
        /\ dedupe(deduped) = deduped
        /\ dedupe(allItems) = deduped

\* a merged batch in which duplicates were dropped and two identities remain
C24_Witness ==
    /\ pc = "idle"
    /\ Len(deduped) = 2
    /\ Len(allItems) > Len(deduped)

\* the identities of a list of the Change Set are pairwise different
OncePerIdentity(list) ==
    \A i, k \in 1..Len(list) : list[i].id = list[k].id => i = k

\* C26: a scan merges each identity at most once: no two entries of a Status
\* History carry the time of the same scan, an identity is at most once in
\* each of the lists new, statusChanged and updated of the scan's Change Set,
\* and never in both new and statusChanged.
C26_OneMergePerIdentity ==
    pc = "idle" =>
        /\ \A id \in DOMAIN state.betas :
              LET h == state.betas[id].statusHistory IN
              \A i, k \in 1..Len(h) : h[i].date = h[k].date => i = k
        /\ OncePerIdentity(changes.new)
        /\ OncePerIdentity(changes.statusChanged)
        /\ OncePerIdentity(changes.updated)
        /\ \A i \in 1..Len(changes.new), k \in 1..Len(changes.statusChanged) :
              changes.new[i].id # changes.statusChanged[k].id

\* a scan whose batch held two candidates of a tracked identity with different
\* statuses has moved the identity's status once
C26_Witness ==
    /\ pc = "idle"
    /\ Len(changes.statusChanged) = 1
    /\ \E i, k \in 1..Len(allItems) :
          /\ allItems[i].id = allItems[k].id
          /\ allItems[i].id = changes.statusChanged[1].id
          /\ allItems[i].status # allItems[k].status
          /\ allItems[i].status # Fallback
          /\ allItems[k].status # Fallback

\* C27: in every store reached from the empty store by merges, the status of
\* a tracked item is the status of the last entry of its Status History, every
\* entry after the first has the status of the entry before it as its
\* previousStatus and another status of its own, and only the first entry can
\* have the status 'update'.
C27_HistoryChainsToStatus ==
    \A id \in DOMAIN state.betas :
        LET item == state.betas[id]
            h == item.statusHistory
        IN  /\ Len(h) >= 1
            /\ item.status = h[Len(h)].status
            /\ \A i \in 2..Len(h) :
                  /\ h[i].previousStatus = h[i - 1].status
                  /\ h[i].previousStatus # h[i].status
                  /\ h[i].status # Fallback

\* an item created with the status 'update' that has moved twice since
C27_Witness ==
    \E id \in DOMAIN state.betas :
        LET h == state.betas[id].statusHistory IN
        /\ Len(h) = 3
        /\ h[1].status = Fallback
        /\ state.betas[id].status = h[3].status

\* the candidate of the deduplicated batch with the identity id
KeptFor(id) == deduped[keyIndex(deduped, id)]

\* C28: of the candidates of one identity in a scan's batch, only the status
\* of the one kept for its longest description is offered to the merge: the
\* status of any other candidate, where it differs, is in no Status History
\* entry of that scan and in no entry of its statusChanged list.
C28_OnlyLongestStatusOffered ==
    pc = "idle" =>
        \A i \in 1..Len(allItems) :
            LET c == allItems[i]
                kept == KeptFor(c.id)
                h == state.betas[c.id].statusHistory
            IN  /\ Len(kept.description) >= Len(c.description)
                /\ c.status # kept.status =>
                      /\ \A k \in 1..Len(h) :
                            h[k].date = state.lastScan => h[k].status # c.status
                      /\ \A k \in 1..Len(changes.statusChanged) :
                            changes.statusChanged[k].id = c.id
                                => changes.statusChanged[k].status # c.status

\* a scan moved a tracked item to the status of the kept candidate while the
\* batch held a shorter candidate of a third status, not the fallback
C28_Witness ==
    /\ pc = "idle"
    /\ \E i \in 1..Len(allItems) :
          LET c == allItems[i]
              kept == KeptFor(c.id)
              h == state.betas[c.id].statusHistory
          IN  /\ Len(c.description) < Len(kept.description)
              /\ c.status \notin {Fallback, kept.status}
              /\ Len(h) >= 2
              /\ h[Len(h)].date = state.lastScan
              /\ h[Len(h)].status = kept.status
              /\ h[Len(h)].previousStatus # c.status

\* C29: two titles that both pass isValidTitle and whose normalized forms
\* differ (another sequence of lower-cased alphanumeric runs) are given
\* different identity keys.
C29_DistinctTitlesDistinctKeys ==
    outSlugs # NoResult =>
        \/ outSlugs[1] # outSlugs[2]
        \/ RunsOf(titles[1]) = RunsOf(titles[2])
        \/ ~isValidTitle(titles[1])
        \/ ~isValidTitle(titles[2])

\* the monthly posts whose load or extraction failed
FailedPosts == {k \in 1..Len(monthlyPosts(board)) : Line("failed", k) \in Range(clog)}

\* the outer catch was not entered and playwright was there
RanThrough ==
    /\ Line("scrape failed", 0) \notin Range(clog)
    /\ Line("not available", 0) \notin Range(clog)

\* the items of the monthly posts outside FailedPosts, then the standalone items
ItemsBut(failed) ==
    FlatRange(LAMBDA k : IF k \in failed THEN <<>>
                         ELSE monthlyPost(monthlyPosts(board)[k]),
              1, Len(monthlyPosts(board)))
        \o standaloneItems(board)

\* C30: when the community adapter has launched a browser session and
\* returns, the session and every page it opened are closed, whatever step
\* failed; each round of the loop leaves its per-post page closed; and the
\* monthly posts whose load or extraction failed are the only ones missing
\* from what a call that ran through returns.
C30_SessionReleasedPostSkipped ==
    /\ (cpc = "ended" /\ creturn.st = "returned" /\ browser # "none")
          => /\ browser = "closed"
             /\ \A i \in 1..Len(pages) : pages[i] = "closed"
    /\ cpc = "posts" => \A i \in 2..Len(pages) : pages[i] = "closed"
    /\ (cpc = "ended" /\ creturn.st = "returned" /\ RanThrough)
          => creturn.items = ItemsBut(FailedPosts)

\* the first of two monthly posts failed to load; the call returned the
\* feature of the second and the standalone post, with everything closed
C30_Witness ==
    /\ cpc = "ended"
    /\ creturn.st = "returned"
    /\ FailedPosts = {1}
    /\ Line("extracted", 2) \in Range(clog)
    /\ Len(creturn.items) = 2
    /\ browser = "closed"
    /\ pages = <<"closed", "closed", "closed">>

====
